---- MODULE Spec2Model ----
(***************************************************************************)
(* Model of the documents plugin: the directory scan, the page matcher,    *)
(* the segment encoder, the annotator and FileManager::update              *)
(* (server/src/files.rs, server/src/pdf.rs), and the plugin's polling      *)
(* loop, event listing and file route (server/src/lib.rs).                 *)
(***************************************************************************)
EXTENDS Integers, Sequences, FiniteSets, TLC

\* ------------------------------------------------------------------ bounds
MaxNames == 2       \* entry names per directory: 1..MaxNames
MaxDepth == 2       \* directory depth below current_path / last_path
MaxTime  == 1       \* clock values 0..MaxTime (mtimes, diff timestamps)
MaxExt   == 2       \* external events: writes, mkdirs, injected I/O failures
MaxLen   == 3       \* baseline rasters handed to find_min_similarity
MaxPages == 2       \* pages of a document handed to compare_pdfs
MaxRows  == 4       \* rows of a raster handed to from_similarity
MaxEdit  == 4       \* pages and comparisons handed to mark_differences
MaxEntries == 2     \* entries in the diff directories of all locations
MaxStr   == 2       \* characters of a file name that update did not write

VARIABLES
    cur,            \* tree below FileManager.current_path
    last,           \* tree below FileManager.last_path
    diff,           \* files in FileManager.diff_path: <<filename, ts>> -> content
    now,            \* wall clock
    ext,            \* number of external events so far
    pc,             \* position inside FileManager::update
    fault,          \* the I/O failure injected into the running scan
    scan,           \* value of find_updated_files in the running cycle
    updated_files,  \* update: the association map (set of <<current, last>>)
    comparsions,    \* update: map current path -> Vec<Comparison>
    updated_pdfs,   \* update: map current path -> Result<out path, error>
    post_update_status, \* update_changed_pdfs: res
    written,        \* out paths written by the running / last cycle
    quiet,          \* an update returned Ok without a failed annotation,
                    \* and nothing external happened since
    startQuiet,     \* quiet, sampled when the running / last cycle started
    img_a,          \* find_min_similarity: the current raster
    img_b,          \* find_min_similarity: the baseline rasters
    work,           \* find_min_similarity: partial results of the reduction
    px_a,           \* compare_images: img_a
    px_b,           \* compare_images: img_b
    px_pc,          \* compare_images: "called", "running" or "returned"
    similarity,     \* compare_images: the AtomicUsize
    stage,          \* compare_images: per pixel task "todo", "add" or "done"
    loaded,         \* per pixel task: the counter as it was when the task began
    px_result,      \* compare_images: the returned Similiarity
    cmp_a,          \* compare_pdfs: the document at path a (current)
    cmp_b,          \* compare_pdfs: the document at path b (baseline)
    cmp_pc,         \* compare_pdfs: "called", "matching", "encoding", "returned"
    sims,           \* find_min_similarity_for_images: results of finished tasks
    page_similarities, \* compare_pdfs: the collected Vec<PageSimilarity>
    cmps,           \* compare_pdfs: Comparisons of finished tasks
    finished,       \* page indices in the order their tasks finished
    cmp_result,     \* compare_pdfs: the returned Result
    seg_a,          \* from_similarity: img_a
    seg_b,          \* from_similarity: img_b (one baseline raster)
    seg_pc,         \* from_similarity: "called", "rows" or "returned"
    seg_index,      \* from_similarity: rows handed to the builder so far
    difference_builder, \* from_similarity: the DifferenceSegementsBuilder
    seg_result,     \* from_similarity: the returned Comparison
    ed_in,          \* mark_differences: the document at in_path
    ed_differences, \* mark_differences: differences
    ed_pc,          \* mark_differences: "called", "loop" or "returned"
    ed_index,       \* mark_differences: index of the try_for_each
    page_shift,     \* mark_differences: page_shift
    ed_pdf,         \* mark_differences: the loaded, mutating document
    ed_out,         \* the file at out_path: "absent", "partial" or a document
    ed_result,      \* mark_differences: "none", "Ok" or "Err"
    ev_dirs,        \* per location: the diff directory (readable, entry names)
    ev_made,        \* the <<location, file name, time>> of every diff written
    ev_range,       \* get_compressed_events: query_range of the last call
    ev_result,      \* the APIResult of the last call since the directories
                    \* changed
    gf_issued,      \* signature strings handed out in SignedDocument values
    gf_file,        \* get_file: the request's <file>
    gf_signature,   \* get_file: the request's <signature>
    gf_pc,          \* get_file: "idle", "called" or "returned"
    gf_status,      \* get_file: the returned Status
    gf_opened,      \* get_file: the paths handed to File::open by the call
    pt_page,        \* mark_page_differences: <<page width, page height>>
    pt_segments,    \* mark_page_differences: segments
    pt_pc,          \* mark_page_differences: "called", "painting", "returned"
    pt_done,        \* segments painted so far
    buffer,         \* mark_page_differences: the RgbaImage
    lp_managers,    \* Plugin.file_managers, as the locations they serve
    lp_pc,          \* request_loop: "idle", "running" or "returned"
    lp_i,           \* request_loop: managers the for loop has passed
    lp_updates,     \* the managers whose update was called, in call order
    lp_results,     \* what each of these calls returned
    lp_reports,     \* the calls of report_error_string
    lp_delay        \* request_loop: the returned Option<Duration>

fsvars  == <<cur, last, diff, now, ext, pc, fault, scan, updated_files,
             comparsions, updated_pdfs, post_update_status,
             written, quiet, startQuiet>>
minvars == <<img_a, img_b, work>>
pixvars == <<px_a, px_b, px_pc, similarity, stage, loaded, px_result>>
cmpvars == <<cmp_a, cmp_b, cmp_pc, sims, page_similarities, cmps, finished,
             cmp_result>>
segvars == <<seg_a, seg_b, seg_pc, seg_index, difference_builder, seg_result>>
edvars  == <<ed_in, ed_differences, ed_pc, ed_index, page_shift, ed_pdf,
             ed_out, ed_result>>
evvars  == <<ev_dirs, ev_made, ev_range, ev_result>>
gfvars  == <<gf_issued, gf_file, gf_signature, gf_pc, gf_status, gf_opened>>
ptvars  == <<pt_page, pt_segments, pt_pc, pt_done, buffer>>
lpvars  == <<lp_managers, lp_pc, lp_i, lp_updates, lp_results, lp_reports,
             lp_delay>>
plugvars == <<evvars, gfvars, ptvars, lpvars>>
corevars == <<minvars, pixvars, cmpvars, segvars, edvars>>
purevars == <<corevars, plugvars>>
vars    == <<fsvars, purevars>>

\* ------------------------------------------------------------- generic
Min(S) == CHOOSE x \in S : \A y \in S : x <= y

Put(f, k, v) == [x \in (DOMAIN f) \cup {k} |-> IF x = k THEN v ELSE f[x]]

EmptyMap == [x \in {} |-> 0]

\* ------------------------------------------------------------ rasters
\* An RgbImage is a sequence of rows, a row a sequence of pixels.
Pixels == {0, 1}

dimensions(img) == <<Len(img[1]), Len(img)>>

RasterA == << <<0>>, <<0>> >>
RasterB == << <<0>>, <<1>> >>

\* ---------------------------------------------------------- documents
\* A PDF file: either unparsable, or a sequence of pages (their rasters).
DocCorrupt == [ok |-> FALSE, pages |-> <<>>]
Doc(ps)    == [ok |-> TRUE, pages |-> ps]

\* A page whose render_with_config fails has no raster.
Unrenderable == <<>>

Docs == {DocCorrupt, Doc(<<>>), Doc(<<RasterA>>), Doc(<<RasterA, RasterB>>)}

\* --------------------------------------------------------- file trees
Names == 1..MaxNames
Paths == UNION {[1..k -> Names] : k \in 1..MaxDepth}
Root  == <<>>

Parent(p) == SubSeq(p, 1, Len(p) - 1)

NoNode       == [t |-> "none", mtime |-> 0, doc |-> DocCorrupt]
DirNode      == [t |-> "dir",  mtime |-> 0, doc |-> DocCorrupt]
FileNode(m, d) == [t |-> "file", mtime |-> m, doc |-> d]

EmptyTree == [p \in Paths |-> NoNode]

IsDir(tree, p) == IF p = Root THEN TRUE ELSE tree[p].t = "dir"

\* std::fs::metadata on the path p of a tree: "ok" or the io::ErrorKind.
\* A path below a regular file is ENOTDIR, which is not ErrorKind::NotFound.
StatErr(tree, p) ==
    LET bad == {k \in 1..(Len(p) - 1) : tree[SubSeq(p, 1, k)].t # "dir"}
    IN  IF bad # {}
        THEN IF tree[SubSeq(p, 1, Min(bad))].t = "file"
             THEN "NotADirectory" ELSE "NotFound"
        ELSE IF tree[p].t = "none" THEN "NotFound" ELSE "ok"

\* ------------------------------------------------ find_updated_files
Ops    == {"read_dir", "file_type", "stat_last", "stat_cur"}
Kinds  == {"NotFound", "Other"}
NoFault == [op |-> "none", path |-> Root, kind |-> "Other"]
Faults == {NoFault} \cup
          [op : Ops, path : Paths \cup {Root}, kind : Kinds]

Hits(f, op, p) == f.op = op /\ f.path = p

ScanOk(l)          == [ok |-> TRUE,  list |-> l, kind |-> "ok", op |-> "none", path |-> Root]
ScanErr(k, op, p)  == [ok |-> FALSE, list |-> <<>>, kind |-> k, op |-> op, path |-> p]

RECURSIVE find_updated_files(_, _, _)
RECURSIVE ScanEntries(_, _, _, _, _)

IsNewer_strictless(current_modified, last_modified) ==
    current_modified >= last_modified

\* current_meta.modified()? > last_meta.modified()? (files.rs 214)
IsNewer(current_modified, last_modified) == current_modified > last_modified

IsNotFound_never(kind) == FALSE

\* if let io::ErrorKind::NotFound = e.kind() (files.rs 219, 230)
IsNotFound(kind) == kind = "NotFound"

\* One iteration of the while loop (files.rs 205-248) for the entry named n.
ScanEntry(current_path, last_path, n, f) ==
    LET entry == Append(current_path, n)
        last_path_file_path == Append(last_path, n)
        last_path_metadata ==
            IF Hits(f, "stat_last", last_path_file_path) THEN f.kind
            ELSE StatErr(last, last_path_file_path)
    IN  IF Hits(f, "file_type", entry) THEN ScanErr(f.kind, "file_type", entry)
        ELSE IF cur[entry].t = "file"
        THEN IF last_path_metadata = "ok"
             THEN IF last[last_path_file_path].t = "file"
                  THEN IF Hits(f, "stat_cur", entry)
                       THEN ScanErr(f.kind, "stat_cur", entry)
                       ELSE IF IsNewer(cur[entry].mtime,
                                       last[last_path_file_path].mtime)
                            THEN ScanOk(<< <<entry, last_path_file_path>> >>)
                            ELSE ScanOk(<<>>)
                  ELSE ScanOk(<< <<entry, last_path_file_path>> >>)
             ELSE IF IsNotFound(last_path_metadata)
                  THEN ScanOk(<< <<entry, last_path_file_path>> >>)
                  ELSE ScanErr(last_path_metadata, "stat_last", last_path_file_path)
        ELSE IF last_path_metadata = "ok"
             THEN find_updated_files(entry, last_path_file_path, f)
             ELSE IF IsNotFound(last_path_metadata)
                  THEN find_updated_files(entry, last_path_file_path, f)
                  ELSE ScanErr(last_path_metadata, "stat_last", last_path_file_path)

ScanEntries(current_path, last_path, n, f, acc) ==
    IF n > MaxNames \/ Len(current_path) >= MaxDepth THEN ScanOk(acc)
    ELSE IF cur[Append(current_path, n)].t = "none"
         THEN ScanEntries(current_path, last_path, n + 1, f, acc)
         ELSE LET r == ScanEntry(current_path, last_path, n, f)
              IN  IF ~r.ok THEN r
                  ELSE ScanEntries(current_path, last_path, n + 1, f, acc \o r.list)

find_updated_files(current_path, last_path, f) ==
    IF Hits(f, "read_dir", current_path)
    THEN ScanErr(f.kind, "read_dir", current_path)
    ELSE ScanEntries(current_path, last_path, 1, f, <<>>)

\* ------------------------------------------------------- PageMatcher
SimDifferent == [t |-> "Different", n |-> 0]
SimSimilar(n) == [t |-> "Similar", n |-> n]

Similiarity_cmp_reversed(self, other) ==
    IF self.t = "Different" /\ other.t = "Different" THEN "Equal"
    ELSE IF self.t = "Different" /\ other.t = "Similar" THEN "Less"
    ELSE IF self.t = "Similar" /\ other.t = "Different" THEN "Greater"
    ELSE IF self.n < other.n THEN "Greater"
    ELSE IF self.n > other.n THEN "Less" ELSE "Equal"

\* Similiarity::cmp (pdf.rs 108-115)
Similiarity_cmp(self, other) ==
    IF self.t = "Different" /\ other.t = "Different" THEN "Equal"
    ELSE IF self.t = "Different" /\ other.t = "Similar" THEN "Greater"
    ELSE IF self.t = "Similar" /\ other.t = "Different" THEN "Less"
    ELSE IF self.n < other.n THEN "Less"
    ELSE IF self.n > other.n THEN "Greater" ELSE "Equal"

\* compare_images (pdf.rs 230-243): every worker adds 1 for a differing pixel.
compare_images(a, b) ==
    IF dimensions(a) # dimensions(b) THEN SimDifferent
    ELSE SimSimilar(Cardinality(
            {xy \in (1..Len(a[1])) \X (1..Len(a)) :
                a[xy[2]][xy[1]] # b[xy[2]][xy[1]]}))

\* The items of img_b.par_iter().enumerate().map(..) (pdf.rs 216-219).
MinItems(a, bs) ==
    [k \in 1..Len(bs) |-> [i |-> k - 1, sim |-> compare_images(a, bs[k])]]

min_by_keep_last(a, b) ==
    IF Similiarity_cmp(a.sim, b.sim) = "Less" THEN a ELSE b

\* The closure .min_by reduces with: of a left and a right partial result,
\* keep the right one only when the left one compares Greater (pdf.rs 220).
min_by(a, b) ==
    IF Similiarity_cmp(a.sim, b.sim) = "Greater" THEN b ELSE a

PageDifferent      == [t |-> "Different", i |-> 0, n |-> 0]
PageSimilar(i, n)  == [t |-> "Similar", i |-> i, n |-> n]

\* The match on the reduced Option (pdf.rs 221-227); w has 0 or 1 items.
PageSimilarityOf(w) ==
    IF w = <<>> THEN PageDifferent
    ELSE IF w[1].sim.t = "Similar" THEN PageSimilar(w[1].i, w[1].sim.n)
    ELSE PageDifferent

RECURSIVE ReduceSeq(_)
\* One schedule of the reduction: left to right.
ReduceSeq(w) ==
    IF Len(w) <= 1 THEN w
    ELSE ReduceSeq(<<min_by(w[1], w[2])>> \o SubSeq(w, 3, Len(w)))

find_min_similarity(a, bs) == PageSimilarityOf(ReduceSeq(MinItems(a, bs)))

find_min_similarity_for_images(as, bs) ==
    [k \in 1..Len(as) |-> find_min_similarity(as[k], bs)]

\* ----------------------------------------------------- SegmentEncoder
\* A position index / (num_rows - 1) is kept as the pair <<index, num_rows - 1>>.
WholePage_half == << <<0, 1>>, <<1, 2>> >>

\* (0., 1.) (pdf.rs 22, 179)
WholePage == << <<0, 1>>, <<1, 1>> >>

CmpIdentical     == [t |-> "Identical", segments |-> <<>>]
CmpDifferent(sg) == [t |-> "Different", segments |-> sg]

\* DifferenceSegementsBuilder (pdf.rs 57-94); current_segment is <<>> or <<seg>>.
Builder_build == [segments |-> <<>>, current_segment |-> <<>>]

Builder_step_stays_open(self, position, hit) ==
    IF self.current_segment # <<>>
    THEN IF hit
         THEN [self EXCEPT !.current_segment =
                    << <<self.current_segment[1][1], position>> >>]
         ELSE self
    ELSE IF hit
         THEN [self EXCEPT !.current_segment = << <<position, position>> >>]
         ELSE self

Builder_step(self, position, hit) ==
    IF self.current_segment # <<>>
    THEN IF hit
         THEN [self EXCEPT !.current_segment =
                    << <<self.current_segment[1][1], position>> >>]
         ELSE [segments |-> Append(self.segments, self.current_segment[1]),
               current_segment |-> <<>>]
    ELSE IF hit
         THEN [self EXCEPT !.current_segment = << <<position, position>> >>]
         ELSE self

Builder_finish(self) ==
    IF self.current_segment # <<>>
    THEN Append(self.segments, self.current_segment[1])
    ELSE self.segments

RECURSIVE RowScan(_, _, _, _)
RowScan(a, b, index, builder) ==
    IF index >= Len(a) \/ index >= Len(b) THEN builder
    ELSE LET equal == \A x \in 1..Len(a[index + 1]) :
                         x <= Len(b[index + 1]) =>
                             a[index + 1][x] = b[index + 1][x]
         IN  RowScan(a, b, index + 1,
                     Builder_step(builder, <<index, Len(a) - 1>>, ~equal))

\* Comparison::from_similarity (pdf.rs 19-49)
from_similarity(sim, a, bs) ==
    IF sim.t = "Different" THEN CmpDifferent(<<WholePage>>)
    ELSE IF sim.n = 0 THEN CmpIdentical
    ELSE CmpDifferent(Builder_finish(RowScan(a, bs[sim.i + 1], 0, Builder_build)))

\* PDFComparison::compare_pdfs (pdf.rs 170-203) on the two loaded documents;
\* a document that is missing, a directory or unparsable has ok = FALSE.
CmpOk(l)  == [ok |-> TRUE,  list |-> l]
CmpErr    == [ok |-> FALSE, list |-> <<>>]

MatchLoaded_either_fails(pdf_a, pdf_b) ==
    IF pdf_a.ok /\ pdf_b.ok THEN "both" ELSE "current_failed"

\* match (pdf_a, pdf_b) of compare_pdfs (pdf.rs 173-185)
MatchLoaded(pdf_a, pdf_b) ==
    IF pdf_a.ok /\ pdf_b.ok THEN "both"
    ELSE IF pdf_a.ok THEN "baseline_failed"
    ELSE "current_failed"

\* extract_images (pdf.rs 245-259): the rasters, or the first render error.
extract_images(pdf) ==
    IF \E k \in 1..Len(pdf.pages) : pdf.pages[k] = Unrenderable
    THEN [ok |-> FALSE, images |-> <<>>]
    ELSE [ok |-> TRUE, images |-> pdf.pages]

\* pdf.rs 176-182: every page of the current document, wholly different.
AllDifferent(pdf_a) == [k \in 1..Len(pdf_a.pages) |-> CmpDifferent(<<WholePage>>)]

compare_pdfs(pdf_a, pdf_b) ==
    IF MatchLoaded(pdf_a, pdf_b) = "current_failed" THEN CmpErr
    ELSE IF MatchLoaded(pdf_a, pdf_b) = "baseline_failed"
    THEN CmpOk(AllDifferent(pdf_a))
    ELSE IF ~(extract_images(pdf_a).ok /\ extract_images(pdf_b).ok) THEN CmpErr
    ELSE LET images_a == extract_images(pdf_a).images
             images_b == extract_images(pdf_b).images
             page_sims == find_min_similarity_for_images(images_a, images_b)
         IN  CmpOk([k \in 1..Len(page_sims) |->
                      from_similarity(page_sims[k], images_a[k], images_b)])

\* -------------------------------------------------- DocumentAnnotator
\* The working document: its pages, each the original index and its overlays.
PdfOf(doc) == [k \in 1..Len(doc.pages) |-> [orig |-> k - 1, overlays |-> <<>>]]

DeleteAt(pdf, pos) ==
    [k \in 1..(Len(pdf) - 1) |-> IF k <= pos THEN pdf[k] ELSE pdf[k + 1]]

EditOk(pdf) == [ok |-> TRUE,  pdf |-> pdf]
EditErr     == [ok |-> FALSE, pdf |-> <<>>]

RECURSIVE MarkLoop(_, _, _, _)
\* The try_for_each of mark_differences (pdf.rs 315-332).
MarkLoop(pdf, differences, index, shift) ==
    IF index >= Len(differences) THEN EditOk(pdf)
    ELSE LET pos == (index + shift) % 65536
         IN  IF pos >= Len(pdf) THEN EditErr
             ELSE IF differences[index + 1].t = "Identical"
                  THEN MarkLoop(DeleteAt(pdf, pos), differences,
                                index + 1, shift - 1)
                  ELSE MarkLoop(
                         [pdf EXCEPT ![pos + 1].overlays =
                              Append(@, differences[index + 1].segments)],
                         differences, index + 1, shift)

\* PDFEditor::mark_differences (pdf.rs 302-339): the saved document, or Err.
mark_differences(in_doc, differences, save_ok) ==
    IF ~in_doc.ok THEN EditErr
    ELSE LET r == MarkLoop(PdfOf(in_doc), differences, 0, 0)
         IN  IF ~r.ok THEN r
             ELSE IF save_ok THEN r ELSE EditErr

\* ----------------------------------------------- FileManager::update
\* pdfium.load_pdf_from_file on a path of a tree.
LoadDoc(tree, p) ==
    IF StatErr(tree, p) = "ok" /\ tree[p].t = "file" THEN tree[p].doc
    ELSE DocCorrupt

\* tokio::fs::copy(from, to): the source is a readable file, the directory of
\* the destination exists, and the destination is not a directory.
CanCopy(from, to) ==
    /\ StatErr(cur, from) = "ok" /\ cur[from].t = "file"
    /\ IF Parent(to) = Root THEN TRUE
       ELSE StatErr(last, Parent(to)) = "ok" /\ last[Parent(to)].t = "dir"
    /\ last[to].t # "dir"

ResNone    == [t |-> "none", map |-> EmptyMap]
ResOk(m)   == [t |-> "Ok",   map |-> m]
ResErr     == [t |-> "Err",  map |-> EmptyMap]

FileOk(out)  == [ok |-> TRUE,  path |-> out,      err |-> "none"]
FileErr(e)   == [ok |-> FALSE, path |-> <<0, 0>>, err |-> e]

Range(s) == {s[k] : k \in DOMAIN s}

Association(c) == (CHOOSE a \in updated_files : a[1] = c)[2]

\* The outcomes of PdfDocument::save_to_file: written, refused before the file
\* was created, or failed after File::create.
SaveOutcomes == {"ok", "refused", "partial"}

Partial == [src |-> Root, pdf |-> <<>>, complete |-> FALSE]

\* filename and outpath of generate_updated_pdfs (files.rs 155-163)
OutPath(path) == <<path[Len(path)], now>>

HasDifferent(res) == \E k \in 1..Len(res) : res[k].t = "Different"

KeepComparison_all(res) == TRUE

\* res.iter().find(|v| ..Different..)? inside the filter_map (files.rs 184-188)
KeepComparison(res) == HasDifferent(res)

ShouldCopy_always(res) == TRUE

\* match result { Ok(diff_path) => copy(..), Err(e) => .. } (files.rs 136-141)
ShouldCopy(res) == res.ok

\* generate_comparisons (files.rs 175-195): the collected Result.
generate_comparisons(files) ==
    IF \E a \in files : ~compare_pdfs(LoadDoc(cur, a[1]), LoadDoc(last, a[2])).ok
    THEN [ok |-> FALSE, map |-> EmptyMap]
    ELSE LET kept == {a[1] : a \in {b \in files :
                        KeepComparison(compare_pdfs(LoadDoc(cur, b[1]),
                                                    LoadDoc(last, b[2])).list)}}
         IN  [ok |-> TRUE,
              map |-> [c \in kept |->
                         compare_pdfs(LoadDoc(cur, c),
                                      LoadDoc(last, Association(c))).list]]

\* The values of the variables of a function that is not running.
MinIdle ==
    /\ img_a = RasterA
    /\ img_b = <<>>
    /\ work = <<>>

PixIdle ==
    /\ px_a = RasterA
    /\ px_b = RasterA
    /\ px_pc = "returned"
    /\ similarity = 0
    /\ stage = EmptyMap
    /\ loaded = EmptyMap
    /\ px_result = SimDifferent

CmpIdle ==
    /\ cmp_a = DocCorrupt
    /\ cmp_b = DocCorrupt
    /\ cmp_pc = "returned"
    /\ sims = EmptyMap
    /\ page_similarities = <<>>
    /\ cmps = EmptyMap
    /\ finished = <<>>
    /\ cmp_result = CmpErr

SegIdle ==
    /\ seg_a = RasterA
    /\ seg_b = RasterA
    /\ seg_pc = "returned"
    /\ seg_index = 0
    /\ difference_builder = Builder_build
    /\ seg_result = CmpIdentical

EdIdle ==
    /\ ed_in = DocCorrupt
    /\ ed_differences = <<>>
    /\ ed_pc = "returned"
    /\ ed_index = 0
    /\ page_shift = 0
    /\ ed_pdf = <<>>
    /\ ed_out = "absent"
    /\ ed_result = "none"

EvIdle ==
    /\ ev_dirs = <<>>
    /\ ev_made = {}
    /\ ev_range = <<0, 0>>
    /\ ev_result = [ok |-> FALSE, events |-> {}]

GfIdle ==
    /\ gf_issued = {}
    /\ gf_file = ""
    /\ gf_signature = [base64 |-> FALSE, bytes |-> <<>>]
    /\ gf_pc = "idle"
    /\ gf_status = "none"
    /\ gf_opened = {}

PtIdle ==
    /\ pt_page = <<0, 0>>
    /\ pt_segments = <<>>
    /\ pt_pc = "returned"
    /\ pt_done = 0
    /\ buffer = <<>>

LpIdle ==
    /\ lp_managers = <<>>
    /\ lp_pc = "idle"
    /\ lp_i = 0
    /\ lp_updates = <<>>
    /\ lp_results = <<>>
    /\ lp_reports = {}
    /\ lp_delay = [some |-> FALSE, v |-> <<>>]

PlugIdle ==
    /\ EvIdle
    /\ GfIdle
    /\ PtIdle
    /\ LpIdle

\* FileManager::new: nothing is running, no cycle has run.
FsIdle ==
    /\ diff = EmptyMap
    /\ now = 0
    /\ ext = 0
    /\ pc = "idle"
    /\ fault = NoFault
    /\ scan = ScanOk(<<>>)
    /\ updated_files = {}
    /\ comparsions = EmptyMap
    /\ updated_pdfs = EmptyMap
    /\ post_update_status = EmptyMap
    /\ written = {}
    /\ quiet = FALSE
    /\ startQuiet = FALSE

Init ==
    /\ cur = EmptyTree
    /\ last = EmptyTree
    /\ FsIdle
    /\ PlugIdle
    /\ MinIdle
    /\ PixIdle
    /\ CmpIdle
    /\ SegIdle
    /\ EdIdle

cyclevars == <<fault, scan, updated_files, comparsions, updated_pdfs,
               post_update_status, written, startQuiet>>

\* ---- other processes writing into the two trees
ExtWrite(side, p, d) ==
    /\ pc = "idle"
    /\ ext < MaxExt
    /\ LET tree == IF side = "cur" THEN cur ELSE last
       IN  /\ IsDir(tree, Parent(p))
           /\ tree[p].t # "dir"
           /\ tree[p] # FileNode(now, d)
           /\ IF side = "cur"
              THEN cur' = [cur EXCEPT ![p] = FileNode(now, d)] /\ last' = last
              ELSE last' = [last EXCEPT ![p] = FileNode(now, d)] /\ cur' = cur
    /\ ext' = ext + 1
    /\ quiet' = FALSE
    /\ UNCHANGED <<diff, now, pc>>
    /\ UNCHANGED cyclevars
    /\ UNCHANGED purevars

ExtMkdir(side, p) ==
    /\ pc = "idle"
    /\ ext < MaxExt
    /\ LET tree == IF side = "cur" THEN cur ELSE last
       IN  /\ IsDir(tree, Parent(p))
           /\ tree[p].t = "none"
           /\ IF side = "cur"
              THEN cur' = [cur EXCEPT ![p] = DirNode] /\ last' = last
              ELSE last' = [last EXCEPT ![p] = DirNode] /\ cur' = cur
    /\ ext' = ext + 1
    /\ quiet' = FALSE
    /\ UNCHANGED <<diff, now, pc>>
    /\ UNCHANGED cyclevars
    /\ UNCHANGED purevars

\* The clock is observed only through the stamps it leaves (modification
\* times, diff file names): it advances once the present instant is in use.
Stamped(t) ==
    \/ \E p \in Paths : cur[p].t = "file" /\ cur[p].mtime = t
    \/ \E p \in Paths : last[p].t = "file" /\ last[p].mtime = t
    \/ \E o \in DOMAIN diff : o[2] = t

Tick ==
    /\ pc = "idle"
    /\ now < MaxTime
    /\ Stamped(now)
    /\ now' = now + 1
    /\ UNCHANGED <<cur, last, diff, ext, pc, quiet>>
    /\ UNCHANGED cyclevars
    /\ UNCHANGED purevars

\* ---- update, files.rs 113-117: the scan and the association map
UpdateScan(f) ==
    /\ pc = "idle"
    /\ f.path # Root => cur[f.path].t # "none"
    /\ IF f = NoFault THEN ext' = ext ELSE ext < MaxExt /\ ext' = ext + 1
    /\ fault' = f
    /\ scan' = find_updated_files(Root, Root, f)
    /\ IF scan'.ok
       THEN pc' = "scanned" /\ updated_files' = Range(scan'.list)
       ELSE pc' = "failed" /\ updated_files' = {}
    /\ comparsions' = EmptyMap
    /\ updated_pdfs' = EmptyMap
    /\ post_update_status' = EmptyMap
    /\ written' = {}
    /\ startQuiet' = quiet
    /\ UNCHANGED <<cur, last, diff, now, quiet>>
    /\ UNCHANGED purevars

\* ---- update, files.rs 118: generate_comparisons(&updated_files)?
UpdateCompare ==
    /\ pc = "scanned"
    /\ LET r == generate_comparisons(updated_files)
       IN  IF r.ok
           THEN pc' = "compared" /\ comparsions' = r.map
           ELSE pc' = "failed" /\ comparsions' = EmptyMap
    /\ UNCHANGED <<cur, last, diff, now, ext, fault, scan, updated_files,
                   updated_pdfs, post_update_status, written, quiet,
                   startQuiet>>
    /\ UNCHANGED purevars

\* ---- update, files.rs 119: generate_updated_pdfs(&comparsions)
\* The closure of generate_updated_pdfs (files.rs 154-171) for one task, on
\* acc = the diff directory, the out paths written, the collected map.
AnnotateTask(acc, path, save) ==
    LET outpath == OutPath(path)
        opened == LoadDoc(cur, path).ok
                  /\ MarkLoop(PdfOf(LoadDoc(cur, path)), comparsions[path], 0, 0).ok
        r == mark_differences(LoadDoc(cur, path), comparsions[path], save = "ok")
    IN  IF r.ok
        THEN [diff |-> Put(acc.diff, outpath,
                           [src |-> path, pdf |-> r.pdf, complete |-> TRUE]),
              written |-> acc.written \cup {outpath},
              map |-> Put(acc.map, path, FileOk(outpath))]
        ELSE IF opened /\ save = "partial"
        THEN [diff |-> Put(acc.diff, outpath, Partial),
              written |-> acc.written \cup {outpath},
              map |-> Put(acc.map, path, FileErr("PDFEditorError"))]
        ELSE [acc EXCEPT !.map = Put(acc.map, path, FileErr("PDFEditorError"))]

RECURSIVE generate_updated_pdfs(_, _, _, _, _)
\* tasks.iter().map(..).collect(): the tasks in the order the HashMap yields
\* them; the save of the task `bad` ends as `outcome`, every other save is ok.
generate_updated_pdfs(order, k, bad, outcome, acc) ==
    IF k > Len(order) THEN acc
    ELSE generate_updated_pdfs(order, k + 1, bad, outcome,
            AnnotateTask(acc, order[k], IF order[k] = bad THEN outcome ELSE "ok"))

Orders(S) ==
    {o \in [1..Cardinality(S) -> S] :
        \A i, j \in 1..Cardinality(S) : o[i] = o[j] => i = j}

UpdateAnnotate(bad, outcome) ==
    /\ pc = "compared"
    /\ bad \in (DOMAIN comparsions) \cup {Root}
    /\ IF bad = Root THEN outcome = "ok" /\ ext' = ext
       ELSE outcome # "ok" /\ ext < MaxExt /\ ext' = ext + 1
    /\ \E order \in Orders(DOMAIN comparsions) :
          LET r == generate_updated_pdfs(order, 1, bad, outcome,
                       [diff |-> diff, written |-> written, map |-> EmptyMap])
          IN  /\ diff' = r.diff
              /\ written' = r.written
              /\ updated_pdfs' = r.map
    /\ pc' = "annotated"
    /\ UNCHANGED <<cur, last, now, fault, scan, updated_files,
                   comparsions, post_update_status, quiet, startQuiet>>
    /\ UNCHANGED purevars

\* ---- update, files.rs 120: update_changed_pdfs(updated_pdfs, &updated_files)
\* One iteration of the loop (files.rs 135-144): is the file copied, and the
\* entry inserted into res.
Copies_whatever_result(path) == CanCopy(path, Association(path))

Copies(path) == ShouldCopy(updated_pdfs[path]) /\ CanCopy(path, Association(path))

Promoted(path) ==
    IF ShouldCopy(updated_pdfs[path])
    THEN IF CanCopy(path, Association(path))
         THEN updated_pdfs[path] ELSE FileErr("Io")
    ELSE updated_pdfs[path]

UpdatePromote ==
    /\ pc = "annotated"
    /\ last' = [to \in Paths |->
                  IF \E path \in DOMAIN updated_pdfs :
                         Association(path) = to /\ Copies(path)
                  THEN FileNode(now,
                         cur[CHOOSE path \in DOMAIN updated_pdfs :
                                 Association(path) = to /\ Copies(path)].doc)
                  ELSE last[to]]
    /\ post_update_status' = [path \in DOMAIN updated_pdfs |-> Promoted(path)]
    /\ pc' = "promoted"
    /\ UNCHANGED <<cur, diff, now, ext, fault, scan, updated_files,
                   comparsions, updated_pdfs, written, quiet, startQuiet>>
    /\ UNCHANGED purevars

\* ---- update returns: Ok(map) (files.rs 121-126) or the Err of a `?`
Returning == pc \in {"promoted", "failed"}

\* The value update() is about to return.
UpdateResult == IF pc = "failed" THEN ResErr ELSE ResOk(post_update_status)

UpdateReturn ==
    /\ Returning
    /\ pc' = "idle"
    /\ quiet' = IF pc = "failed" THEN quiet
                ELSE \A c \in DOMAIN updated_pdfs : updated_pdfs[c].ok
    /\ fault' = NoFault
    /\ scan' = ScanOk(<<>>)
    /\ updated_files' = {}
    /\ comparsions' = EmptyMap
    /\ updated_pdfs' = EmptyMap
    /\ post_update_status' = EmptyMap
    /\ written' = {}
    /\ startQuiet' = FALSE
    /\ UNCHANGED <<cur, last, diff, now, ext>>
    /\ UNCHANGED purevars

\* The scan failures exercised inside whole cycles.
CycleFaults == {NoFault, [op |-> "read_dir", path |-> Root, kind |-> "Other"]}

Next ==
    \/ \E p \in Paths, d \in Docs : ExtWrite("cur", p, d)
    \/ \E side \in {"cur", "last"}, p \in Paths : ExtMkdir(side, p)
    \/ Tick
    \/ \E f \in CycleFaults : UpdateScan(f)
    \/ UpdateCompare
    \/ \E bad \in Paths \cup {Root}, outcome \in SaveOutcomes :
          UpdateAnnotate(bad, outcome)
    \/ UpdatePromote
    \/ UpdateReturn

Spec == Init /\ [][Next]_vars

\* ---- update on a location whose trees hold a subdirectory from the start
SubDir == <<MaxNames>>

\* FileManager::new on directories that already hold the subdirectory SubDir,
\* below current_path and below last_path.
InitSeeded ==
    /\ cur = [EmptyTree EXCEPT ![SubDir] = DirNode]
    /\ last = [EmptyTree EXCEPT ![SubDir] = DirNode]
    /\ FsIdle
    /\ PlugIdle
    /\ MinIdle
    /\ PixIdle
    /\ CmpIdle
    /\ SegIdle
    /\ EdIdle

SpecSeeded == InitSeeded /\ [][Next]_vars

\* ---- update while another process writes below current_path
\* A write between the steps of a running update (its awaits and its blocking
\* calls take time; nothing locks the files).
ExtWriteDuring(p, d) ==
    /\ pc \in {"scanned", "compared", "annotated"}
    /\ ext < MaxExt
    /\ IsDir(cur, Parent(p))
    /\ cur[p].t # "dir"
    /\ cur[p] # FileNode(now, d)
    /\ cur' = [cur EXCEPT ![p] = FileNode(now, d)]
    /\ ext' = ext + 1
    /\ quiet' = FALSE
    /\ UNCHANGED <<last, diff, now, pc>>
    /\ UNCHANGED cyclevars
    /\ UNCHANGED purevars

NextRace ==
    \/ Next
    \/ \E p \in Paths, d \in Docs : ExtWriteDuring(p, d)

SpecRace == Init /\ [][NextRace]_vars

\* ---- the scan alone, under every single I/O failure
\* The scan reads names, types and modification times only: one document
\* stands for every content, and the baseline starts with any set of regular
\* files directly below last_path.
ScanDocs == {Doc(<<RasterA>>)}

SeedTrees ==
    {[p \in Paths |-> IF Len(p) = 1 /\ p[1] \in S
                      THEN FileNode(0, Doc(<<RasterA>>)) ELSE NoNode] :
        S \in SUBSET Names}

InitScan ==
    /\ cur = EmptyTree
    /\ last \in SeedTrees
    /\ FsIdle
    /\ PlugIdle
    /\ MinIdle
    /\ PixIdle
    /\ CmpIdle
    /\ SegIdle
    /\ EdIdle

NextScan ==
    \/ \E side \in {"cur", "last"}, p \in Paths, d \in ScanDocs : ExtWrite(side, p, d)
    \/ \E side \in {"cur", "last"}, p \in Paths : ExtMkdir(side, p)
    \/ Tick
    \/ \E f \in Faults : UpdateScan(f)

SpecScan == InitScan /\ [][NextScan]_vars

\* ---- find_min_similarity as the parallel reduction it is (pdf.rs 215-228)
Rasters == {<< <<a>>, <<b>> >> : a, b \in Pixels} \cup
           {<< <<a, b>> >> : a, b \in Pixels}

InitMin ==
    /\ cur = EmptyTree
    /\ last = EmptyTree
    /\ FsIdle
    /\ PlugIdle
    /\ img_a \in Rasters
    /\ img_b \in UNION {[1..n -> Rasters] : n \in 0..MaxLen}
    /\ work = MinItems(img_a, img_b)
    /\ PixIdle
    /\ CmpIdle
    /\ SegIdle
    /\ EdIdle

\* Two neighbouring partial results are combined, the left one first; which
\* neighbours and when is up to the scheduler.
MinReduce(k) ==
    /\ k \in 1..(Len(work) - 1)
    /\ work' = SubSeq(work, 1, k - 1) \o <<min_by(work[k], work[k + 1])>>
                  \o SubSeq(work, k + 2, Len(work))
    /\ UNCHANGED <<img_a, img_b>>
    /\ UNCHANGED <<fsvars, plugvars, pixvars, cmpvars, segvars, edvars>>

NextMin == \E k \in 1..MaxLen : MinReduce(k)

SpecMin == InitMin /\ [][NextMin]_vars

\* ---- compare_images as the parallel loop it is (pdf.rs 230-243)
get_pixel(img, xy) == img[xy[2]][xy[1]]

\* (0..dimensions().0) x (0..dimensions().1): one task per pixel position.
Positions(img) == (1..dimensions(img)[1]) \X (1..dimensions(img)[2])

fetch_add_from_load(cell, earlier, val) == earlier + val

\* AtomicUsize::fetch_add (pdf.rs 238): one read-modify-write on the cell as
\* it is at this instant, whatever a task saw of it earlier.
fetch_add(cell, earlier, val) == cell + val

CountRasters == Rasters \cup [1..2 -> [1..2 -> Pixels]]

InitCount ==
    /\ cur = EmptyTree
    /\ last = EmptyTree
    /\ FsIdle
    /\ PlugIdle
    /\ MinIdle
    /\ px_a \in CountRasters
    /\ px_b \in CountRasters
    /\ px_pc = "called"
    /\ similarity = 0
    /\ stage = EmptyMap
    /\ loaded = EmptyMap
    /\ px_result = SimDifferent
    /\ CmpIdle
    /\ SegIdle
    /\ EdIdle

\* pdf.rs 231-235: the counter, the dimension test, the tasks are spawned.
CompareStart ==
    /\ px_pc = "called"
    /\ similarity' = 0
    /\ IF dimensions(px_a) # dimensions(px_b)
       THEN /\ px_pc' = "returned"
            /\ px_result' = SimDifferent
            /\ UNCHANGED <<stage, loaded>>
       ELSE /\ px_pc' = "running"
            /\ stage' = [xy \in Positions(px_a) |-> "todo"]
            /\ loaded' = [xy \in Positions(px_a) |-> 0]
            /\ UNCHANGED px_result
    /\ UNCHANGED <<px_a, px_b>>
    /\ UNCHANGED <<fsvars, plugvars, minvars, cmpvars, segvars, edvars>>

\* pdf.rs 237: the task of one position compares its two pixels.
PixelTest(xy) ==
    /\ px_pc = "running"
    /\ xy \in DOMAIN stage
    /\ stage[xy] = "todo"
    /\ IF get_pixel(px_a, xy) # get_pixel(px_b, xy)
       THEN /\ stage' = [stage EXCEPT ![xy] = "add"]
            /\ loaded' = [loaded EXCEPT ![xy] = similarity]
       ELSE /\ stage' = [stage EXCEPT ![xy] = "done"]
            /\ UNCHANGED loaded
    /\ UNCHANGED <<px_a, px_b, px_pc, similarity, px_result>>
    /\ UNCHANGED <<fsvars, plugvars, minvars, cmpvars, segvars, edvars>>

\* pdf.rs 238: similarity.fetch_add(1, Relaxed)
PixelAdd(xy) ==
    /\ px_pc = "running"
    /\ xy \in DOMAIN stage
    /\ stage[xy] = "add"
    /\ similarity' = fetch_add(similarity, loaded[xy], 1)
    /\ stage' = [stage EXCEPT ![xy] = "done"]
    /\ loaded' = [loaded EXCEPT ![xy] = 0]
    /\ UNCHANGED <<px_a, px_b, px_pc, px_result>>
    /\ UNCHANGED <<fsvars, plugvars, minvars, cmpvars, segvars, edvars>>

\* pdf.rs 241-242: for_each returns when every task has, then into_inner().
CompareJoin ==
    /\ px_pc = "running"
    /\ \A xy \in DOMAIN stage : stage[xy] = "done"
    /\ px_result' = SimSimilar(similarity)
    /\ px_pc' = "returned"
    /\ UNCHANGED <<px_a, px_b, similarity, stage, loaded>>
    /\ UNCHANGED <<fsvars, plugvars, minvars, cmpvars, segvars, edvars>>

NextCount ==
    \/ CompareStart
    \/ \E xy \in (1..2) \X (1..2) : PixelTest(xy)
    \/ \E xy \in (1..2) \X (1..2) : PixelAdd(xy)
    \/ CompareJoin

SpecCount == InitCount /\ [][NextCount]_vars

\* ---- compare_pdfs with its two parallel maps (pdf.rs 170-213)
RasterRow == << <<0>> >>

CmpPages == {RasterA, RasterB, RasterRow, Unrenderable}

CmpDocs == {DocCorrupt} \cup
           UNION {{Doc(ps) : ps \in [1..n -> CmpPages]} : n \in 0..MaxPages}

collect_as_finished(results, order) ==
    [k \in 1..Len(order) |-> results[order[k]]]

\* .collect() of an indexed parallel iterator (pdf.rs 202, 212): the result
\* of item k is placed at k, in whatever order the items finished.
collect(results, order) == [k \in 1..Len(order) |-> results[k]]

InitCmp ==
    /\ cur = EmptyTree
    /\ last = EmptyTree
    /\ FsIdle
    /\ PlugIdle
    /\ MinIdle
    /\ PixIdle
    /\ cmp_a \in CmpDocs
    /\ cmp_b \in CmpDocs
    /\ cmp_pc = "called"
    /\ sims = EmptyMap
    /\ page_similarities = <<>>
    /\ cmps = EmptyMap
    /\ finished = <<>>
    /\ cmp_result = CmpErr
    /\ SegIdle
    /\ EdIdle

\* pdf.rs 171-192: both loads, the match, both extract_images.
CmpStart ==
    /\ cmp_pc = "called"
    /\ IF MatchLoaded(cmp_a, cmp_b) = "current_failed"
       THEN cmp_pc' = "returned" /\ cmp_result' = CmpErr
       ELSE IF MatchLoaded(cmp_a, cmp_b) = "baseline_failed"
       THEN cmp_pc' = "returned" /\ cmp_result' = CmpOk(AllDifferent(cmp_a))
       ELSE IF ~(extract_images(cmp_a).ok /\ extract_images(cmp_b).ok)
       THEN cmp_pc' = "returned" /\ cmp_result' = CmpErr
       ELSE cmp_pc' = "matching" /\ cmp_result' = cmp_result
    /\ UNCHANGED <<cmp_a, cmp_b, sims, page_similarities, cmps, finished>>
    /\ UNCHANGED <<fsvars, plugvars, minvars, pixvars, segvars, edvars>>

\* pdf.rs 211: the task of current page k (1-based here).
MatchPage(k) ==
    /\ cmp_pc = "matching"
    /\ k \in 1..Len(cmp_a.pages)
    /\ k \notin DOMAIN sims
    /\ sims' = Put(sims, k, find_min_similarity(cmp_a.pages[k], cmp_b.pages))
    /\ finished' = Append(finished, k)
    /\ UNCHANGED <<cmp_a, cmp_b, cmp_pc, page_similarities, cmps, cmp_result>>
    /\ UNCHANGED <<fsvars, plugvars, minvars, pixvars, segvars, edvars>>

\* pdf.rs 212, 194: collect() once every task has finished.
MatchCollect ==
    /\ cmp_pc = "matching"
    /\ Len(finished) = Len(cmp_a.pages)
    /\ page_similarities' = collect(sims, finished)
    /\ sims' = EmptyMap
    /\ finished' = <<>>
    /\ cmp_pc' = "encoding"
    /\ UNCHANGED <<cmp_a, cmp_b, cmps, cmp_result>>
    /\ UNCHANGED <<fsvars, plugvars, minvars, pixvars, segvars, edvars>>

\* pdf.rs 199-201: the task of index k (1-based here).
EncodePage(k) ==
    /\ cmp_pc = "encoding"
    /\ k \in 1..Len(page_similarities)
    /\ k \notin DOMAIN cmps
    /\ cmps' = Put(cmps, k, from_similarity(page_similarities[k],
                                            cmp_a.pages[k], cmp_b.pages))
    /\ finished' = Append(finished, k)
    /\ UNCHANGED <<cmp_a, cmp_b, cmp_pc, sims, page_similarities, cmp_result>>
    /\ UNCHANGED <<fsvars, plugvars, minvars, pixvars, segvars, edvars>>

\* pdf.rs 196, 202: Ok(.. .collect())
EncodeCollect ==
    /\ cmp_pc = "encoding"
    /\ Len(finished) = Len(page_similarities)
    /\ cmp_result' = CmpOk(collect(cmps, finished))
    /\ cmps' = EmptyMap
    /\ finished' = <<>>
    /\ cmp_pc' = "returned"
    /\ UNCHANGED <<cmp_a, cmp_b, sims, page_similarities>>
    /\ UNCHANGED <<fsvars, plugvars, minvars, pixvars, segvars, edvars>>

NextCmp ==
    \/ CmpStart
    \/ \E k \in 1..MaxPages : MatchPage(k)
    \/ MatchCollect
    \/ \E k \in 1..MaxPages : EncodePage(k)
    \/ EncodeCollect

SpecCmp == InitCmp /\ [][NextCmp]_vars

\* ---- from_similarity row by row (pdf.rs 19-49)
SegRasters == UNION {[1..h -> [1..1 -> Pixels]] : h \in 1..MaxRows} \cup
              UNION {[1..h -> [1..2 -> Pixels]] : h \in 1..2}

\* let mut equal .. break (pdf.rs 36-42) for the rows of 0-based index.
RowsEqual(a, b, index) ==
    \A x \in 1..Len(a[index + 1]) : a[index + 1][x] = b[index + 1][x]

InitSeg ==
    /\ cur = EmptyTree
    /\ last = EmptyTree
    /\ FsIdle
    /\ PlugIdle
    /\ MinIdle
    /\ PixIdle
    /\ CmpIdle
    /\ seg_a \in SegRasters
    /\ seg_b \in SegRasters
    /\ seg_pc = "called"
    /\ seg_index = 0
    /\ difference_builder = Builder_build
    /\ seg_result = CmpIdentical
    /\ EdIdle

\* pdf.rs 20-30: the match on the similarity of img_a to its best match.
SegStart ==
    /\ seg_pc = "called"
    /\ LET sim == find_min_similarity(seg_a, <<seg_b>>)
       IN  IF sim.t = "Different"
           THEN seg_pc' = "returned" /\ seg_result' = CmpDifferent(<<WholePage>>)
           ELSE IF sim.n = 0
           THEN seg_pc' = "returned" /\ seg_result' = CmpIdentical
           ELSE seg_pc' = "rows" /\ seg_result' = seg_result
    /\ difference_builder' = Builder_build
    /\ UNCHANGED <<seg_a, seg_b, seg_index>>
    /\ UNCHANGED <<fsvars, plugvars, minvars, pixvars, cmpvars, edvars>>

\* pdf.rs 35-44: one row of the zip, handed to the builder.
SegRow ==
    /\ seg_pc = "rows"
    /\ seg_index < Len(seg_a)
    /\ difference_builder' =
           Builder_step(difference_builder, <<seg_index, Len(seg_a) - 1>>,
                        ~RowsEqual(seg_a, seg_b, seg_index))
    /\ seg_index' = seg_index + 1
    /\ UNCHANGED <<seg_a, seg_b, seg_pc, seg_result>>
    /\ UNCHANGED <<fsvars, plugvars, minvars, pixvars, cmpvars, edvars>>

\* pdf.rs 45: Comparison::Different(difference_builder.finish())
SegFinish ==
    /\ seg_pc = "rows"
    /\ seg_index = Len(seg_a)
    /\ seg_result' = CmpDifferent(Builder_finish(difference_builder))
    /\ seg_pc' = "returned"
    /\ UNCHANGED <<seg_a, seg_b, seg_index, difference_builder>>
    /\ UNCHANGED <<fsvars, plugvars, minvars, pixvars, cmpvars, edvars>>

NextSeg == SegStart \/ SegRow \/ SegFinish

SpecSeg == InitSeg /\ [][NextSeg]_vars

\* ---- mark_differences step by step (pdf.rs 302-339)
\* The annotator reads of a document its page count only.
EditDocs == {DocCorrupt} \cup {Doc([k \in 1..n |-> RasterA]) : n \in 0..MaxEdit}

EditComparisons == {CmpIdentical, CmpDifferent(<<WholePage>>)}

\* (index as i16 + page_shift) as u16 (pdf.rs 322, 328)
PagePos(index, shift) == (index + shift) % 65536

\* Whether a pdfium call returned Ok or Err.
CallOutcomes == {"ok", "failed"}

InitEdit ==
    /\ cur = EmptyTree
    /\ last = EmptyTree
    /\ FsIdle
    /\ PlugIdle
    /\ MinIdle
    /\ PixIdle
    /\ CmpIdle
    /\ SegIdle
    /\ ed_in \in EditDocs
    /\ ed_differences \in UNION {[1..n -> EditComparisons] : n \in 0..MaxEdit}
    /\ ed_pc = "called"
    /\ ed_index = 0
    /\ page_shift = 0
    /\ ed_pdf = <<>>
    /\ ed_out = "absent"
    /\ ed_result = "none"

\* pdf.rs 308-313: load_pdf_from_file(in_path), page_shift = 0
EditLoad ==
    /\ ed_pc = "called"
    /\ IF ed_in.ok
       THEN ed_pc' = "loop" /\ ed_pdf' = PdfOf(ed_in) /\ ed_result' = ed_result
       ELSE ed_pc' = "returned" /\ ed_pdf' = ed_pdf /\ ed_result' = "Err"
    /\ UNCHANGED <<ed_in, ed_differences, ed_index, page_shift, ed_out>>
    /\ UNCHANGED <<fsvars, plugvars, minvars, pixvars, cmpvars, segvars>>

\* pdf.rs 318-331: one item of the try_for_each. `call` is the outcome of
\* delete() for an Identical page, whose Result is dropped (let _ =), and of
\* mark_page_differences for a Different page, whose Err is returned.
EditStep(call) ==
    /\ ed_pc = "loop"
    /\ ed_index < Len(ed_differences)
    /\ LET pos == PagePos(ed_index, page_shift)
           difference == ed_differences[ed_index + 1]
       IN  IF pos >= Len(ed_pdf)
           THEN /\ call = "failed"
                /\ ed_pc' = "returned" /\ ed_result' = "Err"
                /\ UNCHANGED <<ed_pdf, page_shift, ed_index>>
           ELSE IF difference.t = "Identical"
           THEN /\ ed_pdf' = IF call = "ok" THEN DeleteAt(ed_pdf, pos) ELSE ed_pdf
                /\ page_shift' = page_shift - 1
                /\ ed_index' = ed_index + 1
                /\ UNCHANGED <<ed_pc, ed_result>>
           ELSE IF call = "ok"
           THEN /\ ed_pdf' = [ed_pdf EXCEPT ![pos + 1].overlays =
                                  Append(@, difference.segments)]
                /\ ed_index' = ed_index + 1
                /\ UNCHANGED <<ed_pc, ed_result, page_shift>>
           ELSE /\ ed_pc' = "returned" /\ ed_result' = "Err"
                /\ UNCHANGED <<ed_pdf, page_shift, ed_index>>
    /\ UNCHANGED <<ed_in, ed_differences, ed_out>>
    /\ UNCHANGED <<fsvars, plugvars, minvars, pixvars, cmpvars, segvars>>

\* pdf.rs 334-338: pdf.save_to_file(out_path)
EditSave(save) ==
    /\ ed_pc = "loop"
    /\ ed_index = Len(ed_differences)
    /\ ed_pc' = "returned"
    /\ ed_result' = IF save = "ok" THEN "Ok" ELSE "Err"
    /\ ed_out' = IF save = "ok" THEN ed_pdf
                 ELSE IF save = "partial" THEN "partial" ELSE ed_out
    /\ UNCHANGED <<ed_in, ed_differences, ed_index, page_shift, ed_pdf>>
    /\ UNCHANGED <<fsvars, plugvars, minvars, pixvars, cmpvars, segvars>>

NextEdit ==
    \/ EditLoad
    \/ \E call \in CallOutcomes : EditStep(call)
    \/ \E save \in SaveOutcomes : EditSave(save)

SpecEdit == InitEdit /\ [][NextEdit]_vars

\* ============================================ get_compressed_events
\* Strings are sequences of characters.
Digits == <<"0", "1", "2", "3", "4", "5", "6", "7", "8", "9">>
IsDigit(c) == \E d \in 1..10 : Digits[d] = c
DigitOf(c) == (CHOOSE d \in 1..10 : Digits[d] = c) - 1

\* Display of an integer: decimal digits, '-' before a negative value
RECURSIVE to_digits(_)
to_digits(n) ==
    IF n < 10 THEN <<Digits[n + 1]>>
    ELSE to_digits(n \div 10) \o <<Digits[(n % 10) + 1]>>

to_string(t) == IF t < 0 THEN <<"-">> \o to_digits(0 - t) ELSE to_digits(t)

\* files.rs 159-163: format!("{}.diff.{}.pdf", filename, timestamp)
format_diff_name(filename, t) ==
    filename \o <<".", "d", "i", "f", "f", ".">> \o to_string(t)
             \o <<".", "p", "d", "f">>

\* str::split(sep): the fields between the separators, empty fields included
RECURSIVE split(_, _)
split(s, sep) ==
    IF \E i \in 1..Len(s) : s[i] = sep
    THEN LET i == Min({j \in 1..Len(s) : s[j] = sep})
         IN  <<SubSeq(s, 1, i - 1)>> \o split(SubSeq(s, i + 1, Len(s)), sep)
    ELSE <<s>>

None == [some |-> FALSE, v |-> <<>>]
Some(x) == [some |-> TRUE, v |-> x]

rev_nth_last(fields, n) == Some(fields[Len(fields)])

\* lib.rs 219-220: .rev().nth(n)
rev_nth(fields, n) ==
    IF n < Len(fields) THEN Some(fields[Len(fields) - n]) ELSE None

ParseErr == [ok |-> FALSE, v |-> 0]
ParseOk(x) == [ok |-> TRUE, v |-> x]

RECURSIVE digits_value(_, _)
digits_value(s, acc) ==
    IF s = <<>> THEN acc
    ELSE digits_value(Tail(s), acc * 10 + DigitOf(Head(s)))

\* lib.rs 225: str::parse::<i64>: an optional sign, then one or more decimal
\* digits.  The fields of this model are too short to overflow an i64.
parse_i64(s) ==
    LET signed == s # <<>> /\ Head(s) \in {"+", "-"}
        body == IF signed THEN Tail(s) ELSE s
    IN  IF body = <<>> \/ \E i \in 1..Len(body) : ~IsDigit(body[i])
        THEN ParseErr
        ELSE ParseOk(IF signed /\ Head(s) = "-"
                     THEN 0 - digits_value(body, 0)
                     ELSE digits_value(body, 0))

\* lib.rs 230: DateTime::from_timestamp(t, 0): the instant t seconds after
\* the epoch; None only outside chrono's range of years, which no value of
\* this model reaches.  An instant is kept as its epoch second.
from_timestamp(t) == Some(t)

\* lib.rs 211-236: one directory entry to (path, title, time) or an error
parse_entry(l, name) ==
    LET field == rev_nth(split(name, "."), 1)
        t == IF field.some THEN parse_i64(field.v) ELSE ParseErr
    IN  IF ~field.some \/ ~t.ok \/ ~from_timestamp(t.v).some
        THEN [ok |-> FALSE, path |-> <<l, name>>, title |-> <<>>, time |-> 0]
        ELSE [ok |-> TRUE, path |-> <<l, name>>, title |-> field.v,
              time |-> from_timestamp(t.v).v]

ApiErr == [ok |-> FALSE, events |-> {}]
ApiOk(es) == [ok |-> TRUE, events |-> es]

collect_results_skipping(rs) == ApiOk({r \in rs : r.ok})

\* lib.rs 208, 237: collect::<Result<Vec<_>, APIError>>()?
collect_results(rs) ==
    IF \E r \in rs : ~r.ok THEN ApiErr ELSE ApiOk(rs)

\* lib.rs 240: range.includes(&t)
includes(range, t) == range[1] <= t /\ t <= range[2]

Locations == 1..2

\* lib.rs 172-210: the paths of the entries of every diff directory
DirEntries(dirs) ==
    UNION {{<<l, name>> : name \in dirs[l].names} : l \in DOMAIN dirs}

\* lib.rs 171-252.  read_dir yields the entries in no particular order; the
\* returned Vec is kept as the set of its elements.
get_compressed_events(dirs, range) ==
    LET listed == collect_results(
                      {[ok |-> dirs[l].ok, l |-> l] : l \in DOMAIN dirs})
        parsed == collect_results(
                      {parse_entry(e[1], e[2]) : e \in DirEntries(dirs)})
    IN  IF ~listed.ok \/ ~parsed.ok THEN ApiErr
        ELSE ApiOk({[path |-> e.path, title |-> e.title, time |-> e.time] :
                       e \in {x \in parsed.events : includes(range, x.time)}})

\* File names of the changed documents, and the seconds at which update
\* generates a diff.
SrcNames == {<<"a">>, <<"a", ".", "7">>, <<".", "a">>}
EvTimes == {0 - 12, 0, 10}
EvRanges == {<<0, MaxTime>>, <<0 - 12, 10>>}
NoRange == <<0, 0>>

\* File names that something else put into a diff directory.
EvChars == {"a", ".", "7", "-"}
EvForeignNames ==
    UNION {[1..n -> EvChars] : n \in 1..MaxStr}
        \ {<<".">>, <<".", ".">>}

EvEntries == UNION {ev_dirs[l].names : l \in Locations}

\* Plugin::new: one FileManager per configured location, whose diff
\* directory may or may not be readable.
InitEvents ==
    /\ cur = EmptyTree
    /\ last = EmptyTree
    /\ FsIdle
    /\ MinIdle
    /\ PixIdle
    /\ CmpIdle
    /\ SegIdle
    /\ EdIdle
    /\ ev_dirs \in [Locations -> {[ok |-> b, names |-> {}] : b \in BOOLEAN}]
    /\ ev_made = {}
    /\ ev_range = <<0, 0>>
    /\ ev_result = ApiErr
    /\ GfIdle
    /\ PtIdle
    /\ LpIdle

\* files.rs 155-170: a diff of the document called filename is saved at
\* second t
EvGenerate(l, filename, t) ==
    /\ ev_dirs[l].ok
    /\ Cardinality(ev_made) < MaxEntries
    /\ Cardinality(EvEntries) < MaxEntries
    /\ ev_dirs' = [ev_dirs EXCEPT
                     ![l].names = @ \cup {format_diff_name(filename, t)}]
    /\ ev_made' = ev_made \cup {<<l, filename, t>>}
    /\ ev_range' = NoRange
    /\ ev_result' = ApiErr
    /\ UNCHANGED <<fsvars, corevars, gfvars, ptvars, lpvars>>

\* Something else creates an entry in a diff directory.
EvForeign(l, name) ==
    /\ ev_dirs[l].ok
    /\ Cardinality(EvEntries) < MaxEntries
    /\ EvEntries \cap EvForeignNames = {}
    /\ ev_dirs' = [ev_dirs EXCEPT ![l].names = @ \cup {name}]
    /\ ev_range' = NoRange
    /\ ev_result' = ApiErr
    /\ UNCHANGED ev_made
    /\ UNCHANGED <<fsvars, corevars, gfvars, ptvars, lpvars>>

\* lib.rs 157-254
EvQuery(range) ==
    /\ ev_range' = range
    /\ ev_result' = get_compressed_events(ev_dirs, range)
    /\ UNCHANGED <<ev_dirs, ev_made>>
    /\ UNCHANGED <<fsvars, corevars, gfvars, ptvars, lpvars>>

NextEvents ==
    \/ \E l \in Locations, filename \in SrcNames, t \in EvTimes :
           EvGenerate(l, filename, t)
    \/ \E l \in Locations, name \in EvForeignNames : EvForeign(l, name)
    \/ \E range \in EvRanges : EvQuery(range)

SpecEvents == InitEvents /\ [][NextEvents]_vars

\* ========================================================== get_file
\* A signature string is kept as what BASE64_STANDARD.decode makes of it:
\* not decodable, or the decoded bytes.  Signature bytes are the pair
\* <<key, message>> of the key pair and the message they were made for;
\* any other bytes are no signature.
PluginKey == "plugin"
OtherKey == "other"
NotBase64 == [base64 |-> FALSE, bytes |-> <<>>]
Junk == <<"junk">>

\* lib.rs 275: BASE64_STANDARD.encode
encode(bytes) == [base64 |-> TRUE, bytes |-> bytes]

\* lib.rs 279-282: BASE64_STANDARD.decode
decode(text) == IF text.base64 THEN Some(text.bytes) ELSE None

\* lib.rs 272-276
sign_string(signing_key, string) == encode(<<signing_key, string>>)

\* lib.rs 287-290: Signature::try_from
Signature_try_from(bytes) == IF Len(bytes) = 2 THEN Some(bytes) ELSE None

verify_any_message(verifying_key, msg, signature) ==
    signature[1] = verifying_key

\* lib.rs 284-292: VerifyingKey::verify
verify(verifying_key, msg, signature) ==
    signature[1] = verifying_key /\ signature[2] = msg

\* lib.rs 278-293
verify_string(verifying_key, string, signature) ==
    LET bytes == decode(signature)
        sig == IF bytes.some THEN Signature_try_from(bytes.v) ELSE None
    IN  bytes.some /\ sig.some /\ verify(verifying_key, string, sig.v)

\* Paths a request can name, and the signature strings a client can send:
\* those it was handed, and whatever it makes up without the private key.
GfPaths == {"diff/a.diff.0.pdf", "diff/b.diff.0.pdf", "key"}
GfForged ==
    {NotBase64, encode(Junk)} \cup {sign_string(OtherKey, p) : p \in GfPaths}

InitFile ==
    /\ cur = EmptyTree
    /\ last = EmptyTree
    /\ FsIdle
    /\ MinIdle
    /\ PixIdle
    /\ CmpIdle
    /\ SegIdle
    /\ EdIdle
    /\ EvIdle
    /\ GfIdle
    /\ PtIdle
    /\ LpIdle

\* lib.rs 241-248: an event is returned with the signature of its path
GfSign(path) ==
    /\ gf_pc # "called"
    /\ gf_issued' = gf_issued \cup {sign_string(PluginKey, path)}
    /\ UNCHANGED <<gf_file, gf_signature, gf_pc, gf_status, gf_opened>>
    /\ UNCHANGED <<fsvars, corevars, evvars, ptvars, lpvars>>

\* GET /file/<file>/<signature>
GfRequest(file, signature) ==
    /\ gf_pc # "called"
    /\ gf_pc' = "called"
    /\ gf_file' = file
    /\ gf_signature' = signature
    /\ gf_status' = "none"
    /\ gf_opened' = {}
    /\ UNCHANGED gf_issued
    /\ UNCHANGED <<fsvars, corevars, evvars, ptvars, lpvars>>

\* lib.rs 296-308.  PathBuf::from_str cannot fail, so the BadRequest arm is
\* never taken; File::open is called whether or not the file exists.
get_file ==
    /\ gf_pc = "called"
    /\ gf_pc' = "returned"
    /\ IF ~verify_string(PluginKey, gf_file, gf_signature)
       THEN gf_status' = "Unauthorized" /\ gf_opened' = {}
       ELSE gf_status' = "Ok" /\ gf_opened' = {gf_file}
    /\ UNCHANGED <<gf_issued, gf_file, gf_signature>>
    /\ UNCHANGED <<fsvars, corevars, evvars, ptvars, lpvars>>

NextFile ==
    \/ \E path \in GfPaths : GfSign(path)
    \/ \E file \in GfPaths, signature \in gf_issued \cup GfForged :
           GfRequest(file, signature)
    \/ get_file

SpecFile == InitFile /\ [][NextFile]_vars

\* ============================================= mark_page_differences
\* pdf.rs 347-348: page.width().value as u32 * 5, page.height().value as u32 * 5
image_width == pt_page[1] * 5
image_height == pt_page[2] * 5

Transparent == "transparent"
Red == "red"

\* pdf.rs 350: RgbaImage::new: every pixel is (0, 0, 0, 0)
RgbaImage_new(w, h) ==
    [xy \in (0..(w - 1)) \X (0..(h - 1)) |-> Transparent]

\* pdf.rs 353-354: (image_height as f64 * position).floor() as u32, for the
\* position f[1] / f[2]
floor_mul(h, f) == (h * f[1]) \div f[2]

\* pdf.rs 353-354: the half-open range start_row..end_row
rows_of(h, segment) ==
    floor_mul(h, segment[1])..(floor_mul(h, segment[2]) - 1)

\* pdf.rs 356: 0..10.min(image_width)
columns_of(w) == 0..(Min({10, w}) - 1)

\* pdf.rs 352-360: one iteration of segments.iter().for_each
paint_segment(buf, w, h, segment) ==
    [xy \in DOMAIN buf |->
        IF xy[1] \in columns_of(w) /\ xy[2] \in rows_of(h, segment)
        THEN Red ELSE buf[xy]]

\* Page sizes in points, positions i / d as from_similarity produces them for
\* rasters of up to MaxRows rows, and lists of segments that are ordered and
\* disjoint with 0 <= start <= end <= 1.
PaintPages == {<<1, 1>>, <<2, 1>>, <<3, 2>>}
Fractions == {f \in (0..(MaxRows - 1)) \X (1..(MaxRows - 1)) : f[1] <= f[2]}
PaintSegment == {sg \in Fractions \X Fractions :
                    sg[1][1] * sg[2][2] <= sg[2][1] * sg[1][2]}
PaintLists ==
    {<<>>} \cup {<<sg>> : sg \in PaintSegment}
           \cup {l \in {<<a, b>> : a \in PaintSegment, b \in PaintSegment} :
                    l[1][2][1] * l[2][1][2] < l[2][1][1] * l[1][2][2]}

InitPaint ==
    /\ cur = EmptyTree
    /\ last = EmptyTree
    /\ FsIdle
    /\ MinIdle
    /\ PixIdle
    /\ CmpIdle
    /\ SegIdle
    /\ EdIdle
    /\ EvIdle
    /\ GfIdle
    /\ LpIdle
    /\ pt_page \in PaintPages
    /\ pt_segments \in PaintLists
    /\ pt_pc = "called"
    /\ pt_done = 0
    /\ buffer = <<>>

\* pdf.rs 347-350
PaintStart ==
    /\ pt_pc = "called"
    /\ pt_pc' = "painting"
    /\ buffer' = RgbaImage_new(image_width, image_height)
    /\ UNCHANGED <<pt_page, pt_segments, pt_done>>
    /\ UNCHANGED <<fsvars, corevars, evvars, gfvars, lpvars>>

\* pdf.rs 352-360
PaintStep ==
    /\ pt_pc = "painting"
    /\ pt_done < Len(pt_segments)
    /\ buffer' = paint_segment(buffer, image_width, image_height,
                               pt_segments[pt_done + 1])
    /\ pt_done' = pt_done + 1
    /\ UNCHANGED <<pt_page, pt_segments, pt_pc>>
    /\ UNCHANGED <<fsvars, corevars, evvars, gfvars, lpvars>>

\* pdf.rs 362-370: the buffer becomes the image object of the page
PaintReturn ==
    /\ pt_pc = "painting"
    /\ pt_done = Len(pt_segments)
    /\ pt_pc' = "returned"
    /\ UNCHANGED <<pt_page, pt_segments, pt_done, buffer>>
    /\ UNCHANGED <<fsvars, corevars, evvars, gfvars, lpvars>>

NextPaint ==
    \/ PaintStart
    \/ PaintStep
    \/ PaintReturn

SpecPaint == InitPaint /\ [][NextPaint]_vars

\* ======================================================= request_loop
\* What FileManager::update can return (files.rs 110-127): the Err of the
\* scan or of a comparison, or Ok with one Result per annotated file.
LoopFiles == {"a", "b"}
UpdateOutcomes ==
    {ResErr} \cup
    {ResOk(m) : m \in UNION {[S -> {FileOk(<<1, 0>>), FileErr("Io")}] :
                                S \in SUBSET LoopFiles}}

\* lib.rs 134-150: the reports made for the result of the call number k
reports_of(k, res) ==
    IF res.t = "Ok"
    THEN {<<k, "document", f>> : f \in {g \in DOMAIN res.map : ~res.map[g].ok}}
    ELSE {<<k, "scan", "">>}

after_update_break(i, res, n) == IF res.t = "Err" THEN n ELSE i + 1

\* lib.rs 132, 151: the for loop goes on to the next manager
after_update(i, res, n) == i + 1

\* Plugin::new (lib.rs 107-118): one FileManager per configured location
InitLoop ==
    /\ cur = EmptyTree
    /\ last = EmptyTree
    /\ FsIdle
    /\ MinIdle
    /\ PixIdle
    /\ CmpIdle
    /\ SegIdle
    /\ EdIdle
    /\ EvIdle
    /\ GfIdle
    /\ PtIdle
    /\ lp_managers \in {<<>>, <<1>>, <<1, 2>>, <<2, 1>>}
    /\ lp_pc = "idle"
    /\ lp_i = 0
    /\ lp_updates = <<>>
    /\ lp_results = <<>>
    /\ lp_reports = {}
    /\ lp_delay = None

\* lib.rs 121-131: the host calls request_loop
LoopCall ==
    /\ lp_pc \in {"idle", "returned"}
    /\ lp_pc' = "running"
    /\ lp_i' = 0
    /\ lp_updates' = <<>>
    /\ lp_results' = <<>>
    /\ lp_reports' = {}
    /\ lp_delay' = None
    /\ UNCHANGED lp_managers
    /\ UNCHANGED <<fsvars, corevars, evvars, gfvars, ptvars>>

\* lib.rs 132-151: one iteration, with the value res of mngr.update()
LoopIterate(res) ==
    /\ lp_pc = "running"
    /\ lp_i < Len(lp_managers)
    /\ lp_updates' = Append(lp_updates, lp_managers[lp_i + 1])
    /\ lp_results' = Append(lp_results, res)
    /\ lp_reports' = lp_reports \cup reports_of(lp_i + 1, res)
    /\ lp_i' = after_update(lp_i, res, Len(lp_managers))
    /\ UNCHANGED <<lp_managers, lp_pc, lp_delay>>
    /\ UNCHANGED <<fsvars, corevars, evvars, gfvars, ptvars>>

\* lib.rs 152: Some(Duration::minutes(1))
LoopReturn ==
    /\ lp_pc = "running"
    /\ lp_i >= Len(lp_managers)
    /\ lp_pc' = "returned"
    /\ lp_delay' = Some(<<"minutes", 1>>)
    /\ UNCHANGED <<lp_managers, lp_i, lp_updates, lp_results, lp_reports>>
    /\ UNCHANGED <<fsvars, corevars, evvars, gfvars, ptvars>>

LoopStep ==
    \/ \E res \in UpdateOutcomes : LoopIterate(res)
    \/ LoopReturn

NextLoop ==
    \/ LoopCall
    \/ \E res \in UpdateOutcomes : LoopIterate(res)
    \/ LoopReturn

\* update returns and the executor polls the future until it completes.
SpecLoop == InitLoop /\ [][NextLoop]_vars /\ WF_vars(LoopStep)

\* ===================================================== properties
Candidates == Range(find_updated_files(Root, Root, NoFault).list)

JustScanned == pc = "scanned" \/ (pc = "failed" /\ ~scan.ok)

\* C1: a failure of compare_pdfs or mark_differences for one candidate never
\* makes update itself return Err: once the scan has succeeded, update
\* returns Ok with the per-file map.
C1_SingleFailureNeverAborts ==
    (Returning /\ scan.ok) => UpdateResult.t = "Ok"

\* C2: a baseline is overwritten by update only for a candidate whose
\* mark_differences returned Ok and wrote its diff output before; a candidate
\* whose annotation failed keeps its baseline and is a candidate of the next
\* scan again.
C2_PromotionOrdering ==
    [][/\ pc # "idle" =>
            \A p \in Paths :
                last'[p] # last[p] =>
                    /\ pc = "annotated"
                    /\ p \in DOMAIN updated_pdfs
                    /\ updated_pdfs[p].ok
                    /\ updated_pdfs[p].path \in written
                    /\ updated_pdfs[p].path \in DOMAIN diff
       /\ (pc = "promoted" /\ fault = NoFault) =>
            \A c \in DOMAIN updated_pdfs :
                ~updated_pdfs[c].ok =>
                    /\ post_update_status[c] = updated_pdfs[c]
                    /\ <<c, Association(c)>> \in Candidates]_vars

C2_Witness ==
    /\ pc = "promoted"
    /\ \E c \in DOMAIN post_update_status :
           /\ post_update_status[c].ok
           /\ last[c] = FileNode(now, cur[c].doc)
           /\ \E o \in DOMAIN diff :
                  o[1] = c[Len(c)] /\ o[2] < now /\ diff[o] = Partial

\* C3: an update that starts after an update that returned Ok and annotated
\* every file it tried, with no external change of the file system in
\* between, writes no file into the diff directory.
C3_SecondRunWritesNothing ==
    (Returning /\ startQuiet) => written = {}

\* C4: a candidate whose comparison has pages and reports every page
\* Identical has its baseline promoted in that cycle, so it is no candidate
\* of the next scan.
C4_IdenticalCandidatePromoted ==
    (pc = "promoted" /\ fault = NoFault) =>
        \A a \in updated_files :
            LET r == compare_pdfs(LoadDoc(cur, a[1]), LoadDoc(last, a[2]))
            IN  (r.ok /\ Len(r.list) >= 1 /\ ~HasDifferent(r.list)
                 /\ a[1] \notin DOMAIN comparsions)
                    => a \notin Candidates

\* C5: mark_differences is invoked, and a diff file written, only for
\* candidates whose comparison list contains a Different entry.
C5_NoDiffWithoutDifferent ==
    /\ \A c \in DOMAIN comparsions : HasDifferent(comparsions[c])
    /\ DOMAIN updated_pdfs \subseteq DOMAIN comparsions
    /\ \A k \in written :
           \E c \in DOMAIN updated_pdfs :
               k = OutPath(c) /\ HasDifferent(comparsions[c])
    /\ pc \in {"compared", "annotated"} =>
           \A a \in updated_files :
               a[1] \notin DOMAIN comparsions =>
                   ~HasDifferent(compare_pdfs(LoadDoc(cur, a[1]),
                                              LoadDoc(last, a[2])).list)

C5_Witness ==
    /\ pc = "promoted"
    /\ \E a \in updated_files :
           /\ a[1] \notin DOMAIN comparsions
           /\ Len(cur[a[1]].doc.pages) >= 1
    /\ written = {}

\* C6: after a cycle in which every annotation succeeded, every parsable
\* current file with pages, at any depth, has a baseline: none is left
\* without the baseline path existing.
C6_NewFileGetsBaseline ==
    (/\ pc = "promoted" /\ fault = NoFault
     /\ \A c \in DOMAIN updated_pdfs : updated_pdfs[c].ok) =>
        \A p \in Paths :
            (cur[p].t = "file" /\ cur[p].doc.ok /\ Len(cur[p].doc.pages) >= 1)
                => StatErr(last, p) # "NotFound"

\* C7: without an I/O failure the scan returns, each once, exactly the pairs
\* of the files below current whose baseline path is absent, or a directory,
\* or a file with a strictly older modification time.
RefCandidates ==
    {<<p, p>> : p \in {q \in Paths :
        /\ cur[q].t = "file"
        /\ \/ StatErr(last, q) = "NotFound"
           \/ StatErr(last, q) = "ok" /\ last[q].t = "dir"
           \/ /\ StatErr(last, q) = "ok" /\ last[q].t = "file"
              /\ last[q].mtime < cur[q].mtime}}

C7_ScanEqualsReference ==
    (pc = "scanned" /\ fault = NoFault) =>
        /\ Range(scan.list) = RefCandidates
        /\ Cardinality(Range(scan.list)) = Len(scan.list)
        /\ updated_files = RefCandidates

C7_Witness ==
    /\ pc = "scanned" /\ fault = NoFault
    /\ \E p \in Paths : <<p, p>> \in Range(scan.list)
    /\ \E p \in Paths :
           /\ cur[p].t = "file" /\ last[p].t = "file"
           /\ cur[p].mtime = last[p].mtime
           /\ <<p, p>> \notin Range(scan.list)

\* C8 (as claimed): no NotFound outcome of any operation of the scan makes the
\* scan return an error.
C8_NotFoundNeverFails ==
    JustScanned => (scan.ok \/ scan.kind # "NotFound")

\* The operation the fault is injected into is one the scan performs.
Performed(f) ==
    IF f.op = "read_dir" THEN IsDir(cur, f.path)
    ELSE IF f.path = Root THEN FALSE
    ELSE IF f.op \in {"file_type", "stat_last"} THEN cur[f.path].t # "none"
    ELSE IF f.op = "stat_cur"
         THEN /\ cur[f.path].t = "file"
              /\ StatErr(last, f.path) = "ok"
              /\ last[f.path].t = "file"
    ELSE FALSE

\* C8 (amended): NotFound from stat-ing a baseline path never fails the scan;
\* NotFound from listing a current directory, reading an entry's type or
\* stat-ing a current entry, and every other error kind of any operation,
\* makes the whole scan return Err, and update stops without candidates.
C8_ScanFailures ==
    JustScanned =>
        /\ (~scan.ok /\ scan.kind = "NotFound") =>
               scan.op \in {"read_dir", "file_type", "stat_cur"}
        /\ (Performed(fault) /\ fault.kind # "NotFound") => ~scan.ok
        /\ (Performed(fault) /\ fault.op # "stat_last") => ~scan.ok
        /\ ~scan.ok => (pc = "failed" /\ updated_files = {} /\ scan.list = <<>>)

C8_Witness ==
    /\ pc = "scanned"
    /\ fault.op = "stat_last" /\ fault.kind = "NotFound"
    /\ fault.path # Root
    /\ cur[fault.path].t = "file"
    /\ StatErr(last, fault.path) = "ok"
    /\ <<fault.path, fault.path>> \in Range(scan.list)

\* C9: when a current directory has a regular file at its baseline path, the
\* scan completes without error and returns every file inside the directory.
C9_DirectoryOverBaselineFile ==
    (JustScanned /\ fault = NoFault) =>
        \A p \in Paths :
            (cur[p].t = "dir" /\ StatErr(last, p) = "ok" /\ last[p].t = "file")
                => /\ scan.ok
                   /\ \A q \in Paths :
                          (Len(q) > Len(p) /\ SubSeq(q, 1, Len(p)) = p
                           /\ cur[q].t = "file")
                              => <<q, q>> \in Range(scan.list)

\* C10: whatever the order of the reduction, find_min_similarity returns
\* Similar(i, n) with n the least differing-pixel count over the baseline
\* rasters of equal dimensions and i the lowest index attaining it, and
\* Different exactly when no baseline raster has equal dimensions.
DiffCount(a, b) ==
    Cardinality({xy \in (1..Len(a[1])) \X (1..Len(a)) :
                    a[xy[2]][xy[1]] # b[xy[2]][xy[1]]})

SameDims == {k \in 1..Len(img_b) : dimensions(img_b[k]) = dimensions(img_a)}

RefMinSimilarity ==
    IF SameDims = {} THEN PageDifferent
    ELSE LET n == Min({DiffCount(img_a, img_b[k]) : k \in SameDims})
             i == Min({k \in SameDims : DiffCount(img_a, img_b[k]) = n})
         IN  PageSimilar(i - 1, n)

C10_BestMatch ==
    Len(work) <= 1 => PageSimilarityOf(work) = RefMinSimilarity

C10_Witness ==
    /\ Len(work) = 1 /\ Len(img_b) = 3
    /\ dimensions(img_b[1]) # dimensions(img_a)
    /\ dimensions(img_b[2]) = dimensions(img_a)
    /\ DiffCount(img_a, img_b[2]) = 1
    /\ img_b[3] # img_b[2]
    /\ dimensions(img_b[3]) = dimensions(img_a)
    /\ DiffCount(img_a, img_b[3]) = 1
    /\ PageSimilarityOf(work) = PageSimilar(1, 1)

\* C11: for two rasters of equal dimensions compare_images returns Similar(n)
\* with n the number of pixel positions whose values differ, whatever the
\* order in which the per-pixel tasks test and add; while they run, the
\* counter is the number of tasks that have added.
DiffPositions == {xy \in Positions(px_a) : get_pixel(px_a, xy) # get_pixel(px_b, xy)}

C11_CountIsExact ==
    /\ px_pc = "running" =>
           similarity = Cardinality({xy \in DiffPositions : stage[xy] = "done"})
    /\ (px_pc = "returned" /\ dimensions(px_a) = dimensions(px_b)) =>
           /\ px_result = SimSimilar(Cardinality(DiffPositions))
           /\ px_result = compare_images(px_a, px_b)

C11_Witness ==
    /\ px_pc = "returned"
    /\ dimensions(px_a) = <<2, 2>> /\ dimensions(px_b) = <<2, 2>>
    /\ px_result = SimSimilar(3)

\* C12: when both documents load and render, compare_pdfs returns one
\* Comparison per page of the current document, entry i being the encoding of
\* current page i against its best baseline match, whatever the order in which
\* the page tasks of the two parallel maps finish.
BothRender ==
    /\ MatchLoaded(cmp_a, cmp_b) = "both"
    /\ \A k \in 1..Len(cmp_a.pages) : cmp_a.pages[k] # Unrenderable
    /\ \A k \in 1..Len(cmp_b.pages) : cmp_b.pages[k] # Unrenderable

C12_IndexAligned ==
    (cmp_pc = "returned" /\ BothRender) =>
        /\ cmp_result.ok
        /\ Len(cmp_result.list) = Len(cmp_a.pages)
        /\ \A k \in 1..Len(cmp_a.pages) :
              cmp_result.list[k] =
                  from_similarity(find_min_similarity(cmp_a.pages[k], cmp_b.pages),
                                  cmp_a.pages[k], cmp_b.pages)
        /\ cmp_result = compare_pdfs(cmp_a, cmp_b)

C12_Witness ==
    /\ cmp_pc = "returned" /\ BothRender
    /\ Len(cmp_a.pages) = 2 /\ Len(cmp_b.pages) = 1
    /\ cmp_result.list[1].t = "Different"
    /\ cmp_result.list[2].t = "Identical"

\* C13: a current page for which some baseline raster has the same dimensions
\* and the same pixels is matched as Similar(_, 0) and encoded as Identical,
\* and a page is encoded as Identical only if such a baseline raster exists.
SamePixels(a, b) ==
    /\ dimensions(a) = dimensions(b)
    /\ \A xy \in Positions(a) : get_pixel(a, xy) = get_pixel(b, xy)

HasTwin(k) == \E j \in 1..Len(cmp_b.pages) : SamePixels(cmp_a.pages[k], cmp_b.pages[j])

C13_IdenticalIffTwin ==
    /\ (cmp_pc \in {"encoding", "returned"} /\ BothRender) =>
          \A k \in 1..Len(cmp_a.pages) :
              HasTwin(k) => /\ page_similarities[k].t = "Similar"
                            /\ page_similarities[k].n = 0
    /\ (cmp_pc = "returned" /\ BothRender) =>
          \A k \in 1..Len(cmp_a.pages) :
              HasTwin(k) <=> cmp_result.list[k].t = "Identical"

C13_Witness ==
    /\ cmp_pc = "returned" /\ BothRender
    /\ Len(cmp_b.pages) = 2
    /\ \E k \in 1..Len(cmp_a.pages) :
          /\ ~SamePixels(cmp_a.pages[k], cmp_b.pages[1])
          /\ dimensions(cmp_a.pages[k]) = dimensions(cmp_b.pages[1])
          /\ SamePixels(cmp_a.pages[k], cmp_b.pages[2])
          /\ cmp_result.list[k].t = "Identical"

\* A position <<i, d>> is the f64 i / d; with d = 0 and i = 0 it is NaN, which
\* compares false with everything.
IsNumber(f) == f[2] # 0
FracLe(f, g) == IsNumber(f) /\ IsNumber(g) /\ f[1] * g[2] <= g[1] * f[2]
FracLt(f, g) == IsNumber(f) /\ IsNumber(g) /\ f[1] * g[2] < g[1] * f[2]
IsZero(f) == IsNumber(f) /\ f[1] = 0
IsOne(f)  == IsNumber(f) /\ f[1] = f[2]

\* C14: a current page with no baseline page of equal dimensions has
\* similarity Different and is encoded as Different with exactly one segment,
\* from 0.0 to 1.0.
NoSameSize(k) ==
    \A j \in 1..Len(cmp_b.pages) :
        dimensions(cmp_a.pages[k]) # dimensions(cmp_b.pages[j])

C14_WholePageFlagged ==
    (cmp_pc = "returned" /\ BothRender) =>
        \A k \in 1..Len(cmp_a.pages) :
            /\ NoSameSize(k) <=> page_similarities[k].t = "Different"
            /\ page_similarities[k].t = "Different" =>
                  /\ cmp_result.list[k].t = "Different"
                  /\ Len(cmp_result.list[k].segments) = 1
                  /\ IsZero(cmp_result.list[k].segments[1][1])
                  /\ IsOne(cmp_result.list[k].segments[1][2])

C14_Witness ==
    /\ cmp_pc = "returned" /\ BothRender
    /\ Len(cmp_b.pages) >= 1
    /\ \E k \in 1..Len(cmp_a.pages) :
          NoSameSize(k) /\ cmp_result.list[k].t = "Different"

\* C15: for Similar(j, n > 0) the emitted segments are the maximal runs of
\* consecutive hit rows, one segment per run in row order, from
\* first_row / (num_rows - 1) to last_row / (num_rows - 1).
HitRows == {r \in 0..(Len(seg_a) - 1) :
               \E x \in 1..Len(seg_a[r + 1]) : seg_a[r + 1][x] # seg_b[r + 1][x]}

RunStarts == {r \in HitRows : r - 1 \notin HitRows}

RunEnd(first) ==
    CHOOSE e \in HitRows :
        /\ e >= first
        /\ \A t \in first..e : t \in HitRows
        /\ e + 1 \notin HitRows

NthStart(k) == CHOOSE r \in RunStarts : Cardinality({q \in RunStarts : q < r}) = k - 1

EncodedRows ==
    seg_pc = "returned" /\ dimensions(seg_a) = dimensions(seg_b) /\ HitRows # {}

C16_SegmentsWellFormed ==
    (seg_pc = "returned" /\ seg_result.t = "Different") =>
        LET sg == seg_result.segments
        IN  /\ Len(sg) >= 1
            /\ \A k \in 1..Len(sg) :
                  /\ FracLe(<<0, 1>>, sg[k][1])
                  /\ FracLe(sg[k][1], sg[k][2])
                  /\ FracLe(sg[k][2], <<1, 1>>)
            /\ \A k \in 1..(Len(sg) - 1) : FracLt(sg[k][2], sg[k + 1][1])
            /\ (dimensions(seg_a) = dimensions(seg_b)
                    /\ (Len(seg_a) - 1) \in HitRows) => IsOne(sg[Len(sg)][2])

\* C17: with one comparison per page, at each step index + page_shift is the
\* position of original page index in the mutating document, and on success
\* the output holds exactly the pages tagged Different, in their original
\* order, each with exactly one overlay.
OnePerPage == ed_in.ok /\ Len(ed_differences) = Len(ed_in.pages)

DifferentPages == {k \in 0..(Len(ed_differences) - 1) :
                      ed_differences[k + 1].t = "Different"}

C17_PageBookkeeping ==
    /\ (ed_pc = "loop" /\ OnePerPage /\ ed_index < Len(ed_differences)) =>
          /\ PagePos(ed_index, page_shift) < Len(ed_pdf)
          /\ ed_pdf[PagePos(ed_index, page_shift) + 1].orig = ed_index
    /\ (ed_pc = "returned" /\ OnePerPage /\ ed_result = "Ok") =>
          /\ Len(ed_out) = Cardinality(DifferentPages)
          /\ \A k \in 1..Len(ed_out) :
                /\ ed_out[k].orig \in DifferentPages
                /\ Len(ed_out[k].overlays) = 1
                /\ \A j \in 1..(k - 1) : ed_out[j].orig < ed_out[k].orig

\* C18: whenever mark_differences returns an error, at whichever step, no
\* file, complete or partial, exists at the output path because of that call.
C18_NoOutputOnError ==
    (ed_pc = "returned" /\ ed_result = "Err") => ed_out = "absent"

\* C19: if the current document loads and the baseline does not, compare_pdfs
\* returns Ok with one Different((0.0, 1.0)) per current page, without
\* rendering; if the current document does not load it returns an error,
\* whatever the baseline.
C19_LoadAsymmetry ==
    /\ (cmp_pc = "returned" /\ cmp_a.ok /\ ~cmp_b.ok) =>
          /\ cmp_result.ok
          /\ Len(cmp_result.list) = Len(cmp_a.pages)
          /\ \A k \in 1..Len(cmp_a.pages) :
                /\ cmp_result.list[k].t = "Different"
                /\ Len(cmp_result.list[k].segments) = 1
                /\ IsZero(cmp_result.list[k].segments[1][1])
                /\ IsOne(cmp_result.list[k].segments[1][2])
    /\ (cmp_pc = "returned" /\ ~cmp_a.ok) => ~cmp_result.ok

C19_Witness ==
    /\ cmp_pc = "returned"
    /\ cmp_a.ok /\ ~cmp_b.ok
    /\ Len(cmp_a.pages) = 2
    /\ cmp_a.pages[2] = Unrenderable
    /\ cmp_result.ok

\* C20: a step of update leaves the current tree as it is, removes no baseline
\* file and no diff file, changes a baseline path only into the file of a
\* candidate whose annotation succeeded, and touches in the diff directory
\* only out paths of candidates it annotates.
UpdateStep == pc # "idle" \/ pc' # "idle"

DiffNameOf(m) == format_diff_name(m[2], m[3])

C21_TimestampRoundTrip ==
    \A m \in ev_made :
        /\ parse_entry(m[1], DiffNameOf(m)).ok
        /\ parse_entry(m[1], DiffNameOf(m)).time = m[3]
        /\ parse_entry(m[1], DiffNameOf(m)).title = to_string(m[3])
        /\ \A e \in ev_result.events :
               e.path = <<m[1], DiffNameOf(m)>> => e.time = m[3]

\* A query returned the event of a diff of "a.7" written at second -12 and
\* the event of a diff written at second 10.
C21_Witness ==
    /\ ev_result.ok
    /\ \E m \in ev_made :
          /\ m[2] = <<"a", ".", "7">>
          /\ m[3] = 0 - 12
          /\ \E e \in ev_result.events :
                 e.path = <<m[1], DiffNameOf(m)>> /\ e.time = 0 - 12
    /\ \E m \in ev_made :
          /\ m[3] = 10
          /\ \E e \in ev_result.events :
                 e.path = <<m[1], DiffNameOf(m)>> /\ e.time = 10

\* ------------------------------------------------------------------ C22
\* A name as the claim calls malformed: no dot in it, or a second-to-last
\* field that is not an optional sign followed by decimal digits.
IntegerText(field) ==
    LET body == IF field # <<>> /\ field[1] \in {"+", "-"}
                THEN SubSeq(field, 2, Len(field)) ELSE field
    IN  Len(body) > 0 /\ \A i \in 1..Len(body) : IsDigit(body[i])

Dots(name) == {i \in 1..Len(name) : name[i] = "."}

SecondToLast(name) ==
    LET last_dot == CHOOSE i \in Dots(name) : \A j \in Dots(name) : j <= i
        before == {i \in Dots(name) : i < last_dot}
        from == IF before = {} THEN 1
                ELSE (CHOOSE i \in before : \A j \in before : j <= i) + 1
    IN  SubSeq(name, from, last_dot - 1)

Malformed(name) ==
    Dots(name) = {} \/ ~IntegerText(SecondToLast(name))

\* C22: whenever a diff directory of any location holds an entry with a
\* malformed name, get_compressed_events returns an error, whatever the
\* queried range.
C22_MalformedReported ==
    [][(ev_dirs' = ev_dirs /\ \E e \in DirEntries(ev_dirs) : Malformed(e[2]))
           => ~ev_result'.ok]_vars

\* A query over the wide range failed although every directory could be
\* read, with a malformed entry in one location and a diff in the other.
C22_Witness ==
    /\ ~ev_result.ok
    /\ ev_range = <<0 - 12, 10>>
    /\ \A l \in Locations : ev_dirs[l].ok
    /\ \E e \in DirEntries(ev_dirs), m \in ev_made :
          /\ Malformed(e[2])
          /\ e[1] # m[1]
          /\ includes(ev_range, m[3])

\* ------------------------------------------------------------------ C23
\* The signature string decodes, the bytes are a signature, and it was made
\* with the plugin's key for exactly the requested path string.
ValidFor(file, signature) ==
    /\ signature.base64
    /\ signature.bytes # Junk
    /\ signature.bytes = <<PluginKey, file>>

\* C23: get_file hands a path to File::open only if (path, signature)
\* verifies under the plugin's key; a request whose signature is not
\* base64, not a signature or not made for exactly that path is answered
\* Unauthorized and opens nothing.
C23_VerifyBeforeOpen ==
    gf_pc = "returned" =>
        /\ \A f \in gf_opened : f = gf_file /\ ValidFor(gf_file, gf_signature)
        /\ ~ValidFor(gf_file, gf_signature) =>
               gf_status = "Unauthorized" /\ gf_opened = {}
        /\ ValidFor(gf_file, gf_signature) => gf_opened = {gf_file}

\* A request for the key file with the signature that was handed out for a
\* diff file has been answered.
C23_Witness ==
    /\ gf_pc = "returned"
    /\ gf_file = "key"
    /\ gf_signature = sign_string(PluginKey, "diff/a.diff.0.pdf")
    /\ gf_signature \in gf_issued
    /\ gf_status = "Unauthorized"

\* ------------------------------------------------------------------ C24
\* A step of the loop at an Identical entry whose page is still in the
\* document afterwards: delete() returned an error.
DeleteFailed ==
    /\ ed_pc = "loop"
    /\ ed_index < Len(ed_differences)
    /\ ed_differences[ed_index + 1].t = "Identical"
    /\ PagePos(ed_index, page_shift) < Len(ed_pdf)
    /\ ed_pdf' = ed_pdf

\* C24: when the deletion of an Identical page returns an error,
\* mark_differences returns an error, page_shift is not decremented for that
\* page and nothing is saved.
C24_DeleteFailureFails ==
    [][DeleteFailed =>
          /\ ed_pc' = "returned"
          /\ ed_result' = "Err"
          /\ page_shift' = page_shift
          /\ ed_out' = "absent"]_vars

\* ------------------------------------------------------------------ C25
\* The normalized position row / H of a row lies within [start, end].
RowWithin(row, segment) ==
    /\ segment[1][1] * image_height <= row * segment[1][2]
    /\ row * segment[2][2] <= segment[2][1] * image_height

ShouldBeRed(xy) ==
    /\ xy[1] < Min({10, image_width})
    /\ \E k \in 1..Len(pt_segments) : RowWithin(xy[2], pt_segments[k])

\* C25: in the finished overlay a pixel (column, row) is red exactly when
\* column < min(10, W) and row / H lies within [start, end] of some segment,
\* every other pixel is transparent, and every segment, one with start = end
\* included, marks at least one row.
C25_OverlayPainting ==
    pt_pc = "returned" =>
        /\ \A xy \in DOMAIN buffer :
              buffer[xy] = IF ShouldBeRed(xy) THEN Red ELSE Transparent
        /\ \A k \in 1..Len(pt_segments) :
              \E xy \in DOMAIN buffer :
                  buffer[xy] = Red /\ RowWithin(xy[2], pt_segments[k])

\* ------------------------------------------------------------------ C26
\* Every failure among the results of the calls so far has been reported.
AllReported ==
    \A k \in 1..Len(lp_results) :
        /\ lp_results[k].t = "Err" => <<k, "scan", "">> \in lp_reports
        /\ lp_results[k].t = "Ok" =>
              \A f \in DOMAIN lp_results[k].map :
                  ~lp_results[k].map[f].ok => <<k, "document", f>> \in lp_reports

\* C26: in every invocation of request_loop update is called once for each
\* configured FileManager, in order; a scan-level Err or a per-file Err of one
\* location is reported and does not keep the remaining locations from being
\* processed; and the invocation always completes, returning one minute.
C26_EveryLocationCovered ==
    /\ [](lp_pc = "running" =>
             /\ Len(lp_updates) <= Len(lp_managers)
             /\ lp_updates = SubSeq(lp_managers, 1, Len(lp_updates))
             /\ AllReported)
    /\ [](lp_pc = "returned" =>
             /\ lp_updates = lp_managers
             /\ AllReported
             /\ lp_delay = Some(<<"minutes", 1>>))
    /\ (lp_pc = "running" ~> lp_pc = "returned")

\* An invocation over two locations returned after the update of the first
\* failed as a whole and the update of the second failed for one document.
C26_Witness ==
    /\ lp_pc = "returned"
    /\ lp_managers = <<1, 2>>
    /\ lp_updates = <<1, 2>>
    /\ lp_results[1].t = "Err"
    /\ lp_results[2].t = "Ok"
    /\ \E f \in DOMAIN lp_results[2].map : ~lp_results[2].map[f].ok
    /\ Cardinality(lp_reports) >= 2

\* ------------------------------------------------------------------ C27
\* The out paths of the files annotated in the running cycle are distinct.
DistinctOutPaths ==
    pc \in {"annotated", "promoted"} =>
        \A c1, c2 \in DOMAIN comparsions :
            c1 # c2 => OutPath(c1) # OutPath(c2)

\* No complete diff output is replaced by the diff of another file.
NoForeignOverwrite ==
    \A o \in DOMAIN diff :
        (diff[o].complete /\ o \in DOMAIN diff' /\ diff'[o].complete)
            => diff'[o].src = diff[o].src

\* C27: two different changed files of one location, in the same cycle or in
\* cycles within the same second, are never written to the same diff output
\* path, so no diff output is overwritten by the diff of another file.
C27_DistinctOutputPaths ==
    []DistinctOutPaths /\ [][NoForeignOverwrite]_vars

\* ------------------------------------------------------------------ C28
\* The diff output of the file is the diff of the content now at the path
\* against the baseline it is about to replace.
DiffCovers(path) ==
    LET doc == LoadDoc(cur, path)
        c == compare_pdfs(doc, LoadDoc(last, Association(path)))
        out == updated_pdfs[path].path
    IN  /\ c.ok
        /\ out \in DOMAIN diff
        /\ diff[out].complete
        /\ diff[out].pdf = mark_differences(doc, c.list, TRUE).pdf

\* C28: when update_changed_pdfs copies a file over its baseline, the content
\* it promotes is the content the diff output was made from, or else the
\* file is a candidate again in the next scan.
C28_NoLostChange ==
    [][(pc = "annotated" /\ pc' = "promoted") =>
          \A path \in DOMAIN updated_pdfs :
              Copies(path) =>
                  \/ DiffCovers(path)
                  \/ <<path, Association(path)>> \in Candidates']_vars
====
